---- MODULE Spec2Model ----
(***************************************************************************)
(* The AI Resume Builder (src/src/App.tsx and the richer snapshot          *)
(* src/unnamed/part_000): the step-gating workflow of the build track      *)
(* (StepPage, ProofPage, the per-step artifact store) and the resume       *)
(* draft engine (readResumeDraft and the functions derived from a draft).  *)
(*                                                                         *)
(* JavaScript values are tagged records, strings are sequences of          *)
(* characters (or of short chunks), localStorage holds JSON text as a      *)
(* sequence of tokens which JSON.stringify writes and JSON.parse reads.    *)
(***************************************************************************)
EXTENDS Integers, Sequences, FiniteSets, TLC

VARIABLES
    storage,         \* localStorage: key -> JSON text (absent keys are not in the domain)
    location,        \* the router's location: [pathname, state]
    redirects,       \* how many times the router was redirected since the last request
    artifacts,       \* useState of StepPage / ProofPage: step number -> value read or committed
    notes,           \* useState of StepPage: the notes field of the commit form
    status,          \* useState of StepPage: the outcome flag of the commit form
    screenshotName,  \* useState of StepPage: the attachment display name
    now,             \* the clock new Date() reads, counted in commits
    draft,           \* useState of BuilderPage / CleanPreviewPage: the resume draft
    uuid,            \* how many ids crypto.randomUUID() has handed out
    template,        \* useState of BuilderPage / CleanPreviewPage: the template chosen
    edits,           \* how many edits and copies the resume pages have taken
    links,           \* useState of ProofPage: the submission links
    clipboard,       \* the text the proof and preview pages handed to navigator.clipboard
    suggesting,      \* suggestSkills of BuilderPage: "idle", "pending" (timer set) or "queued"
    draft2,          \* useState of BuilderPage in a second tab: its resume draft
    artifacts2,      \* useState of StepPage in a second tab: its artifact map
    path2            \* the pathname of the second tab on the build track; <<>> when it has none

vars == <<storage, location, redirects, artifacts, notes, status, screenshotName, now,
          draft, uuid, template, edits, links, clipboard, suggesting, draft2,
          artifacts2, path2>>

\* the state of the resume pages, which the build track leaves alone
draftVars == <<draft, uuid, template, edits>>

\* the state of the proof page and the clipboard
proofVars == <<links, clipboard>>

\* the state of a pending skill suggestion and of a second tab
sessionVars == <<suggesting, draft2, artifacts2, path2>>

\* the state of the build-track pages, which the resume pages leave alone
trackVars == <<redirects, artifacts, notes, status, screenshotName, now>>

-----------------------------------------------------------------------------
(* Bounds of the model *)

\* crypto.randomUUID() hands out no more ids than this.
MaxUuid == 6

\* The longest list of entries a persisted draft holds.
MaxItems == 2

\* The clock stops here: no commit is made once `now` has reached it, and the
\* form, which only a commit reads, is no longer edited; navigation goes on.
MaxClock == 1

-----------------------------------------------------------------------------
(* JavaScript values *)

Undefined == [t |-> "undefined"]
Null      == [t |-> "null"]
Bool(b)   == [t |-> "boolean", b |-> b]
Num(n)    == [t |-> "number", n |-> n]
Str(s)    == [t |-> "string", s |-> s]
Arr(a)    == [t |-> "array", a |-> a]
Obj(o)    == [t |-> "object", o |-> o]

EmptyString == Str(<<>>)

\* typeof v
TypeOf(v) == IF v.t \in {"null", "array"} THEN "object" ELSE v.t

\* Boolean(v), !v
Truthy(v) ==
    CASE v.t = "undefined" -> FALSE
      [] v.t = "null"      -> FALSE
      [] v.t = "boolean"   -> v.b
      [] v.t = "number"    -> v.n # 0
      [] v.t = "string"    -> v.s # <<>>
      [] OTHER             -> TRUE

\* v?.key : undefined on null and undefined, the property otherwise
\* (a primitive or an array has none of the properties the program reads).
Get(v, key) ==
    IF v.t = "object" /\ key \in DOMAIN v.o THEN v.o[key] ELSE Undefined

\* a ?? b
Nullish(a, b) == IF a.t \in {"undefined", "null"} THEN b ELSE a

\* a || b
OrElse(a, b) == IF Truthy(a) THEN a ELSE b

Whitespace == {" ", "\t", "\n"}

RECURSIVE TrimStart(_)
TrimStart(s) ==
    IF s # <<>> /\ Head(s) \in Whitespace THEN TrimStart(Tail(s)) ELSE s

RECURSIVE TrimEnd(_)
TrimEnd(s) ==
    IF s # <<>> /\ s[Len(s)] \in Whitespace THEN TrimEnd(SubSeq(s, 1, Len(s) - 1)) ELSE s

\* String.prototype.trim on the characters of a string
Trim(s) == TrimEnd(TrimStart(s))

\* String.prototype.endsWith
EndsWith(s, suffix) ==
    /\ Len(suffix) <= Len(s)
    /\ SubSeq(s, Len(s) - Len(suffix) + 1, Len(s)) = suffix

-----------------------------------------------------------------------------
(* JSON text: a sequence of tokens *)

Punct(c)   == [k |-> c]
KeyTok(n)  == [k |-> "key", name |-> n]
StrTok(s)  == [k |-> "str", s |-> s]
NumTok(n)  == [k |-> "num", n |-> n]
\* a lexeme JSON does not have (an unquoted word, a stray character)
JunkTok(w) == [k |-> "junk", w |-> w]

\* The property names of the program's objects, in the order their literals list them.
KeyOrder ==
    << "notes", "status", "screenshotName", "uploadedAt",
       "lovable", "deploy",
       "name", "email", "phone", "location", "summary",
       "education", "experience", "projects",
       "technicalSkills", "softSkills", "toolsTechnologies", "skills",
       "github", "linkedin",
       "id", "school", "degree", "year",
       "company", "role", "duration", "bullet",
       "title", "description", "techStack", "liveUrl", "githubUrl" >>

RECURSIVE StringifyValue(_)
RECURSIVE StringifyElements(_)
RECURSIVE StringifyMembers(_, _)

\* the elements of an array, comma-separated; undefined is written as null
StringifyElements(a) ==
    IF a = <<>> THEN <<>>
    ELSE LET first == IF Head(a).t = "undefined" THEN <<Punct("null")>>
                      ELSE StringifyValue(Head(a))
         IN  IF Len(a) = 1 THEN first
             ELSE first \o <<Punct(",")>> \o StringifyElements(Tail(a))

\* the members of an object, comma-separated; a member whose value is undefined is left out
StringifyMembers(o, keys) ==
    IF keys = <<>> THEN <<>>
    ELSE LET key  == Head(keys)
             rest == StringifyMembers(o, Tail(keys))
         IN  IF o[key].t = "undefined" THEN rest
             ELSE <<KeyTok(key), Punct(":")>> \o StringifyValue(o[key])
                    \o (IF rest = <<>> THEN <<>> ELSE <<Punct(",")>> \o rest)

StringifyValue(v) ==
    CASE v.t = "null"    -> <<Punct("null")>>
      [] v.t = "boolean" -> <<Punct(IF v.b THEN "true" ELSE "false")>>
      [] v.t = "number"  -> <<NumTok(v.n)>>
      [] v.t = "string"  -> <<StrTok(v.s)>>
      [] v.t = "array"   -> <<Punct("[")>> \o StringifyElements(v.a) \o <<Punct("]")>>
      [] v.t = "object"  ->
            <<Punct("{")>>
            \o StringifyMembers(v.o, SelectSeq(KeyOrder, LAMBDA key : key \in DOMAIN v.o))
            \o <<Punct("}")>>

\* JSON.stringify(v), v not undefined
JSONstringify(v) == StringifyValue(v)

ParseFail == [ok |-> FALSE]
ParseOk(v, i) == [ok |-> TRUE, v |-> v, i |-> i]

RECURSIVE ParseValue(_, _)
RECURSIVE ParseElements(_, _, _)
RECURSIVE ParseMembers(_, _, _)

\* after "[" : value ("," value)* "]"
ParseElements(text, i, acc) ==
    LET r == ParseValue(text, i) IN
    IF ~r.ok \/ r.i > Len(text) THEN ParseFail
    ELSE IF text[r.i].k = "," THEN ParseElements(text, r.i + 1, Append(acc, r.v))
    ELSE IF text[r.i].k = "]" THEN ParseOk(Arr(Append(acc, r.v)), r.i + 1)
    ELSE ParseFail

\* after "{" : key ":" value ("," key ":" value)* "}" ; a repeated key keeps its last value
ParseMembers(text, i, acc) ==
    IF i + 1 > Len(text) \/ text[i].k # "key" \/ text[i + 1].k # ":" THEN ParseFail
    ELSE LET r == ParseValue(text, i + 2) IN
         IF ~r.ok \/ r.i > Len(text) THEN ParseFail
         ELSE LET acc2 == (text[i].name :> r.v) @@ acc IN
              IF text[r.i].k = "," THEN ParseMembers(text, r.i + 1, acc2)
              ELSE IF text[r.i].k = "}" THEN ParseOk(Obj(acc2), r.i + 1)
              ELSE ParseFail

ParseValue(text, i) ==
    IF i > Len(text) THEN ParseFail
    ELSE LET tok == text[i] IN
         CASE tok.k = "null"  -> ParseOk(Null, i + 1)
           [] tok.k = "true"  -> ParseOk(Bool(TRUE), i + 1)
           [] tok.k = "false" -> ParseOk(Bool(FALSE), i + 1)
           [] tok.k = "num"   -> ParseOk(Num(tok.n), i + 1)
           [] tok.k = "str"   -> ParseOk(Str(tok.s), i + 1)
           [] tok.k = "["     ->
                IF i + 1 <= Len(text) /\ text[i + 1].k = "]"
                THEN ParseOk(Arr(<<>>), i + 2)
                ELSE ParseElements(text, i + 1, <<>>)
           [] tok.k = "{"     ->
                IF i + 1 <= Len(text) /\ text[i + 1].k = "}"
                THEN ParseOk(Obj(<<>>), i + 2)
                ELSE ParseMembers(text, i + 1, <<>>)
           [] OTHER           -> ParseFail

\* JSON.parse(text): the value, or a SyntaxError
JSONparse(text) ==
    LET r == ParseValue(text, 1) IN
    IF r.ok /\ r.i = Len(text) + 1 THEN [ok |-> TRUE, v |-> r.v] ELSE [ok |-> FALSE]

-----------------------------------------------------------------------------
(* localStorage *)

\* localStorage.getItem(key): the text, or null
getItem(store, key) ==
    IF key \in DOMAIN store THEN [t |-> "text", x |-> store[key]] ELSE Null

\* localStorage.setItem(key, text)
setItem(store, key, text) == (key :> text) @@ store

parseJson(value) ==
    IF value.t = "null" \/ value.x = <<>> THEN Null
    ELSE LET r == JSONparse(value.x) IN IF r.ok THEN r.v ELSE Null

-----------------------------------------------------------------------------
(* The build track: its steps *)

STEPS ==
    << [number |-> 1, route |-> <<"/rb/", "01", "-", "problem">>,      title |-> "Problem"],
       [number |-> 2, route |-> <<"/rb/", "02", "-", "market">>,       title |-> "Market"],
       [number |-> 3, route |-> <<"/rb/", "03", "-", "architecture">>, title |-> "Architecture"],
       [number |-> 4, route |-> <<"/rb/", "04", "-", "hld">>,          title |-> "High-Level Design"],
       [number |-> 5, route |-> <<"/rb/", "05", "-", "lld">>,          title |-> "Low-Level Design"],
       [number |-> 6, route |-> <<"/rb/", "06", "-", "build">>,        title |-> "Build"],
       [number |-> 7, route |-> <<"/rb/", "07", "-", "test">>,         title |-> "Test"],
       [number |-> 8, route |-> <<"/rb/", "08", "-", "ship">>,         title |-> "Ship"] >>

StepNumbers == {STEPS[i].number : i \in 1..Len(STEPS)}

PROOF_ROUTE == <<"/rb/", "proof">>

\* a variant of getArtifactKey that forgets the step number: one key for all steps
getArtifactKeyShared(stepNumber) == "rb_step_artifact"

getArtifactKey(stepNumber) == "rb_step_" \o ToString(stepNumber) \o "_artifact"

getInitialArtifacts(store) ==
    [n \in StepNumbers |-> parseJson(getItem(store, getArtifactKey(n)))]

\* a variant of getFirstIncompleteStep that tests the record, not its timestamp:
\* STEPS.find(step => !artifacts[step.number])
RECURSIVE findPresentFrom(_, _)
findPresentFrom(arts, i) ==
    IF i > Len(STEPS) THEN 0
    ELSE IF ~Truthy(arts[STEPS[i].number]) THEN STEPS[i].number
    ELSE findPresentFrom(arts, i + 1)

getFirstIncompleteStepByPresence(arts) == findPresentFrom(arts, 1)

\* STEPS.find(step => !artifacts[step.number]?.uploadedAt) from index i on:
\* the number of the first such step, 0 when there is none
RECURSIVE findPendingFrom(_, _)
findPendingFrom(arts, i) ==
    IF i > Len(STEPS) THEN 0
    ELSE IF ~Truthy(Get(arts[STEPS[i].number], "uploadedAt")) THEN STEPS[i].number
    ELSE findPendingFrom(arts, i + 1)

\* pending?.number ?? null ; 0 stands for null
getFirstIncompleteStep(arts) == findPendingFrom(arts, 1)

-----------------------------------------------------------------------------
(* The router *)

HOME_ROUTE == <<"/">>
BUILDER_ROUTE == <<"/builder">>
PREVIEW_ROUTE == <<"/preview">>

\* Which element of <Routes> renders a pathname: "/rb/proof" is ProofPage,
\* "/rb/:stepSlug" is StepPage, the others are pages outside the build track.
PageOf(pathname) ==
    IF pathname = PROOF_ROUTE THEN "ProofPage"
    ELSE IF Len(pathname) >= 2 /\ Head(pathname) = "/rb/" THEN "StepPage"
    ELSE IF pathname = BUILDER_ROUTE THEN "BuilderPage"
    ELSE IF pathname = PREVIEW_ROUTE THEN "CleanPreviewPage"
    ELSE "Other"

\* useParams().stepSlug of a pathname that matches "/rb/:stepSlug"
stepSlug(pathname) == Tail(pathname)

\* STEPS.find(item => item.route.endsWith(slug)) from index i on, as an index
\* of STEPS; 0 when there is none
RECURSIVE findStepFrom(_, _)
findStepFrom(slug, i) ==
    IF i > Len(STEPS) THEN 0
    ELSE IF EndsWith(STEPS[i].route, slug) THEN i
    ELSE findStepFrom(slug, i + 1)

\* const step = STEPS.find((item) => item.route.endsWith(stepSlug ?? ''))
findStep(slug) == findStepFrom(slug, 1)

\* the step StepPage shows at the current location (an index of STEPS; 0 when none)
CurrentStep == IF PageOf(location.pathname) = "StepPage"
               THEN findStep(stepSlug(location.pathname)) ELSE 0

-----------------------------------------------------------------------------
(* StepPage *)

\* a variant of lockedStepThreshold that unlocks one step too many
lockedStepThresholdOffByOne(arts) ==
    LET firstIncomplete == getFirstIncompleteStep(arts)
    IN  IF firstIncomplete = 0 THEN Len(STEPS) ELSE firstIncomplete + 1

\* const lockedStepThreshold = firstIncomplete === null ? STEPS.length : firstIncomplete
lockedStepThreshold(arts) ==
    LET firstIncomplete == getFirstIncompleteStep(arts)
    IN  IF firstIncomplete = 0 THEN Len(STEPS) ELSE firstIncomplete

\* the route rail: const unlocked = item.number <= lockedStepThreshold
unlocked(arts, i) == STEPS[i].number <= lockedStepThreshold(arts)

\* Boolean(artifacts[step.number]?.uploadedAt)
isSaved(arts, step) == Truthy(Get(arts[STEPS[step].number], "uploadedAt"))

\* the form effect: the three fields of artifacts[step.number], '' for each one missing
FormOf(existing) ==
    [ notes          |-> Nullish(Get(existing, "notes"), EmptyString),
      status         |-> Nullish(Get(existing, "status"), EmptyString),
      screenshotName |-> Nullish(Get(existing, "screenshotName"), EmptyString) ]

\* a variant of stepPageTarget without the redirect effect
stepPageTargetNoRedirect(pathname, arts) ==
    IF findStep(stepSlug(pathname)) = 0 THEN STEPS[1].route ELSE pathname

\* a variant of stepPageTarget that sends a step beyond the first incomplete
\* one back by one step only
stepPageTargetBack(pathname, arts) ==
    LET step            == findStep(stepSlug(pathname))
        firstIncomplete == getFirstIncompleteStep(arts)
    IN  IF step = 0 THEN STEPS[1].route
        ELSE IF firstIncomplete # 0 /\ STEPS[step].number > firstIncomplete
             THEN STEPS[step - 1].route
             ELSE pathname

\* One render of StepPage at a pathname: where it navigates to, or the pathname
\* itself when it stays. An unknown slug renders <Navigate to={STEPS[0].route}>;
\* the redirect effect sends a step beyond the first incomplete one back to it.
stepPageTarget(pathname, arts) ==
    LET step            == findStep(stepSlug(pathname))
        firstIncomplete == getFirstIncompleteStep(arts)
    IN  IF step = 0 THEN STEPS[1].route
        ELSE IF firstIncomplete # 0 /\ STEPS[step].number > firstIncomplete
             THEN STEPS[firstIncomplete].route
             ELSE pathname

\* StepPage renders and its effects run until it navigates no more: the
\* pathname it settles at and the number of navigations made, `hops` included.
RECURSIVE settleStepPage(_, _, _)
settleStepPage(pathname, arts, hops) ==
    LET target == stepPageTarget(pathname, arts)
    IN  IF target = pathname THEN [pathname |-> pathname, hops |-> hops]
        ELSE settleStepPage(target, arts, hops + 1)

\* a variant of ShowStepPage whose form effect does not depend on the step: a
\* StepPage that was mounted before keeps its form when the step changes
ShowStepPageKeepForm(pathname, arts, locState, hops, kept) ==
    \E settled \in {settleStepPage(pathname, arts, hops)} :
    \E step \in {findStep(stepSlug(settled.pathname))} :
    \E form \in {IF kept /\ arts = artifacts
                 THEN [notes |-> notes, status |-> status, screenshotName |-> screenshotName]
                 ELSE FormOf(arts[STEPS[step].number])} :
        /\ location' = [pathname |-> settled.pathname,
                        state    |-> IF settled.hops = hops THEN locState ELSE Null]
        /\ redirects' = settled.hops
        /\ artifacts' = arts
        /\ notes' = form.notes
        /\ status' = form.status
        /\ screenshotName' = form.screenshotName
        /\ links' = Undefined

\* StepPage is shown at a pathname with the artifact map `arts` in its state:
\* the location it settles at, and the form the form effect leaves there. The
\* form effect depends on [step, artifacts]: a StepPage that was mounted
\* before (`kept`) and ends at the step and the artifacts it had keeps its form.
ShowStepPage(pathname, arts, locState, hops, kept) ==
    \E settled \in {settleStepPage(pathname, arts, hops)} :
    \E step \in {findStep(stepSlug(settled.pathname))} :
    \E form \in {IF kept /\ step = CurrentStep /\ arts = artifacts
                 THEN [notes |-> notes, status |-> status, screenshotName |-> screenshotName]
                 ELSE FormOf(arts[STEPS[step].number])} :
        /\ location' = [pathname |-> settled.pathname,
                        state    |-> IF settled.hops = hops THEN locState ELSE Null]
        /\ redirects' = settled.hops
        /\ artifacts' = arts
        /\ notes' = form.notes
        /\ status' = form.status
        /\ screenshotName' = form.screenshotName
        /\ links' = Undefined

PROOF_LINKS_KEY == "rb_proof_links"

\* parseJson(localStorage.getItem(PROOF_LINKS_KEY)) ?? { lovable: '', github: '', deploy: '' }
getProofLinks(store) ==
    Nullish(parseJson(getItem(store, PROOF_LINKS_KEY)),
            Obj([lovable |-> EmptyString, github |-> EmptyString, deploy |-> EmptyString]))

\* a variant of ShowProofPage that renders whatever the artifacts are
ShowProofPageUngated(stored) ==
    /\ location' = [pathname |-> PROOF_ROUTE, state |-> Null]
    /\ redirects' = 0
    /\ artifacts' = stored
    /\ notes' = EmptyString
    /\ status' = EmptyString
    /\ screenshotName' = EmptyString
    /\ links' = getProofLinks(storage)

\* ProofPage is mounted: it reads the artifacts; with a step incomplete it renders
\* null and navigates to that step, handing over where it came from.
ShowProofPage(stored) ==
    \E firstIncomplete \in {getFirstIncompleteStep(stored)} :
        IF firstIncomplete # 0
        THEN ShowStepPage(STEPS[firstIncomplete].route, stored, [from |-> PROOF_ROUTE], 1, FALSE)
        ELSE /\ location' = [pathname |-> PROOF_ROUTE, state |-> Null]
             /\ redirects' = 0
             /\ artifacts' = stored
             /\ notes' = EmptyString
             /\ status' = EmptyString
             /\ screenshotName' = EmptyString
             /\ links' = getProofLinks(storage)

\* The URLs of the build track a user opens: every step, the proof page,
\* a slug that is the tail of a step's identifier, and a slug of no step.
Urls ==
    {STEPS[i].route : i \in 1..Len(STEPS)}
        \cup {PROOF_ROUTE, <<"/rb/", "ship">>, <<"/rb/", "unknown">>}

\* The user opens a URL (address bar, reload, bookmark): the page is mounted
\* afresh, its useState initializer reading `stored` = getInitialArtifacts().
OpenUrl(url, stored) ==
    /\ IF PageOf(url) = "ProofPage"
       THEN ShowProofPage(stored)
       ELSE ShowStepPage(url, stored, Null, 0, FALSE)
    /\ UNCHANGED <<sessionVars, storage, now, draftVars, clipboard>>

\* A <Link> of StepPage is followed: StepPage stays mounted and keeps its state,
\* unless the link leads to the proof page.
FollowLink(route) ==
    /\ IF PageOf(route) = "ProofPage"
       THEN \E stored \in {getInitialArtifacts(storage)} : ShowProofPage(stored)
       ELSE ShowStepPage(route, artifacts, Null, 0, TRUE)
    /\ UNCHANGED <<sessionVars, storage, now, draftVars, clipboard>>

\* a route-rail link; a locked one has to='#' and its click is prevented
ClickRail(i) ==
    /\ CurrentStep # 0
    /\ unlocked(artifacts, i)
    /\ FollowLink(STEPS[i].route)

\* the Previous link: to={STEPS[step.number - 2].route}, rendered when step.number > 1
ClickPrevious ==
    /\ CurrentStep # 0
    /\ STEPS[CurrentStep].number > 1
    /\ FollowLink(STEPS[STEPS[CurrentStep].number - 1].route)

\* the Next link: to={isSaved ? nextRoute : '#'}
ClickNext ==
    /\ CurrentStep # 0
    /\ isSaved(artifacts, CurrentStep)
    /\ \E isLastStep \in {STEPS[CurrentStep].number = Len(STEPS)} :
       \E nextRoute \in {IF isLastStep THEN PROOF_ROUTE
                         ELSE STEPS[STEPS[CurrentStep].number + 1].route} :
           FollowLink(nextRoute)

\* what the user types into the notes field
NoteInputs == {<<>>, <<" ">>, <<"n">>}

\* onChange of the notes textarea
SetNotes(value) ==
    /\ CurrentStep # 0
    /\ now < MaxClock
    /\ notes' = Str(value)
    /\ UNCHANGED <<sessionVars, storage, location, redirects, artifacts, status, screenshotName, now, draftVars,
                   proofVars>>

\* the It Worked and Error buttons: setStatus('worked'), setStatus('error')
SetStatus(value) ==
    /\ CurrentStep # 0
    /\ now < MaxClock
    /\ status' = Str(value)
    /\ UNCHANGED <<sessionVars, storage, location, redirects, artifacts, notes, screenshotName, now, draftVars,
                   proofVars>>

\* the files a user picks as screenshot
FileNames == {<<"s.png">>}

\* handleScreenshotChange with a file chosen
handleScreenshotChange(fileName) ==
    /\ CurrentStep # 0
    /\ now < MaxClock
    /\ screenshotName' = Str(fileName)
    /\ UNCHANGED <<sessionVars, storage, location, redirects, artifacts, notes, status, now, draftVars,
                   proofVars>>

\* new Date().toISOString() at clock value t: never the empty string
toISOString(t) == <<"T", ToString(t)>>

\* a variant of uploadDisabled that does not trim the notes
uploadDisabledUntrimmed(n, s, f) ==
    /\ ~Truthy(n)
    /\ ~Truthy(s)
    /\ ~Truthy(f)

\* disabled={!notes.trim() && !status && !screenshotName}
uploadDisabled(n, s, f) ==
    /\ ~Truthy(Str(Trim(n.s)))
    /\ ~Truthy(s)
    /\ ~Truthy(f)

\* a variant of newArtifact that leaves the attachment name out of the record
newArtifactWithoutAttachment(n, s, f, t) ==
    Obj([ notes      |-> n,
          status     |-> s,
          uploadedAt |-> Str(toISOString(t)) ])

\* the record handleUploadArtifact builds from the form at time t
newArtifact(n, s, f, t) ==
    Obj([ notes          |-> n,
          status         |-> s,
          screenshotName |-> f,
          uploadedAt     |-> Str(toISOString(t)) ])

\* the map setArtifacts leaves: { ...prev, [step.number]: artifact }
withArtifact(prev, stepNumber, artifact) == [prev EXCEPT ![stepNumber] = artifact]

\* the Upload Artifact button, when it is not disabled
handleUploadArtifact ==
    /\ CurrentStep # 0
    /\ ~uploadDisabled(notes, status, screenshotName)
    /\ now < MaxClock
    /\ now' = now + 1
    /\ UNCHANGED <<sessionVars, draftVars, clipboard>>
    /\ \E number \in {STEPS[CurrentStep].number} :
       \E artifact \in {newArtifact(notes, status, screenshotName, now + 1)} :
       \E next \in {withArtifact(artifacts, number, artifact)} :
           /\ storage' = setItem(storage, getArtifactKey(number), JSONstringify(artifact))
           /\ ShowStepPage(location.pathname, next, location.state, redirects, TRUE)

\* The most commits two tabs make between them.
MaxCommits == 3

\* the step StepPage shows in the second tab (an index of STEPS; 0 when none)
CurrentStep2 == IF PageOf(path2) = "StepPage" THEN findStep(stepSlug(path2)) ELSE 0

\* A URL of a step is opened in a second tab: StepPage is mounted there, its
\* useState initializer reads the store, and it renders until it navigates no more.
OpenUrl2(url) ==
    /\ PageOf(url) = "StepPage"
    /\ \E stored \in {getInitialArtifacts(storage)} :
           /\ artifacts2' = stored
           /\ path2' = settleStepPage(url, stored, 0).pathname
    /\ UNCHANGED <<suggesting, draft2, storage, location, proofVars, draftVars, trackVars>>

\* a <Link> of StepPage is followed in the second tab, which keeps its artifact map
FollowLink2(route) ==
    /\ PageOf(route) = "StepPage"
    /\ path2' = settleStepPage(route, artifacts2, 0).pathname
    /\ UNCHANGED <<suggesting, draft2, artifacts2, storage, location, proofVars, draftVars,
                   trackVars>>

\* a route-rail link of the second tab
ClickRail2(i) ==
    /\ CurrentStep2 # 0
    /\ unlocked(artifacts2, i)
    /\ FollowLink2(STEPS[i].route)

\* the Next link of the second tab, on a step that is not the last
ClickNext2 ==
    /\ CurrentStep2 # 0
    /\ isSaved(artifacts2, CurrentStep2)
    /\ STEPS[CurrentStep2].number < Len(STEPS)
    /\ FollowLink2(STEPS[STEPS[CurrentStep2].number + 1].route)

\* the Upload Artifact button of the second tab, with the form the user has
\* filled in there: the record goes to the store and into the tab's own map
handleUploadArtifact2(n, s, f) ==
    /\ CurrentStep2 # 0
    /\ ~uploadDisabled(n, s, f)
    /\ now < MaxCommits
    /\ now' = now + 1
    /\ \E number \in {STEPS[CurrentStep2].number} :
       \E artifact \in {newArtifact(n, s, f, now + 1)} :
       \E next \in {withArtifact(artifacts2, number, artifact)} :
           /\ storage' = setItem(storage, getArtifactKey(number), JSONstringify(artifact))
           /\ artifacts2' = next
           /\ path2' = settleStepPage(path2, next, 0).pathname
    /\ UNCHANGED <<suggesting, draft2, location, redirects, artifacts, notes, status,
                   screenshotName, proofVars, draftVars>>

\* what the user types into a field of the submission links
LinkInputs == {<<>>, <<"u">>}

\* { ...value } : the own properties of an object; a number or a boolean has none
Spread(value) == IF value.t = "object" THEN value.o ELSE [key \in {} |-> Undefined]

\* handleLinkChange(field, value), rendered once ProofPage shows its content
handleLinkChange(field, value) ==
    /\ PageOf(location.pathname) = "ProofPage"
    /\ getFirstIncompleteStep(artifacts) = 0
    /\ \E nextLinks \in {Obj((field :> Str(value)) @@ Spread(links))} :
           /\ links' = nextLinks
           /\ storage' = setItem(storage, PROOF_LINKS_KEY, JSONstringify(nextLinks))
    /\ UNCHANGED <<sessionVars, location, trackVars, draftVars, clipboard>>

\* `${value}` : the text of a value in a template literal
RECURSIVE ToText(_)
ToText(value) ==
    CASE value.t = "string"    -> value.s
      [] value.t = "number"    -> <<ToString(value.n)>>
      [] value.t = "boolean"   -> IF value.b THEN <<"true">> ELSE <<"false">>
      [] value.t = "object"    -> <<"[object Object]">>
      [] value.t = "array"     ->
             IF value.a = <<>> THEN <<>>
             ELSE IF Len(value.a) = 1 THEN ToText(Head(value.a))
             ELSE ToText(Head(value.a)) \o <<",">> \o ToText(Arr(Tail(value.a)))
      [] OTHER                 -> <<value.t>>

\* Array.prototype.join(sep) on strings
RECURSIVE Join(_, _)
Join(parts, sep) ==
    IF parts = <<>> THEN <<>>
    ELSE IF Len(parts) = 1 THEN Head(parts)
    ELSE Head(parts) \o sep \o Join(Tail(parts), sep)

\* `Step ${step.number} (${step.title}): ${artifact?.uploadedAt ? 'Complete' : 'Pending'}`
stepLine(step, artifact) ==
    <<"Step ", ToString(step.number), " (", step.title, "): ",
      IF Truthy(Get(artifact, "uploadedAt")) THEN "Complete" ELSE "Pending">>

\* a variant of the link line without the replacement of an empty value
linkLineAsIs(label, value) == <<label, ": ">> \o ToText(value)

\* `Lovable: ${links.lovable || 'N/A'}`
linkLine(label, value) == <<label, ": ">> \o ToText(OrElse(value, Str(<<"N/A">>)))

\* the summary handleCopySubmission builds
submissionSummary(arts, lnks) ==
    Join( <<<<"AI Resume Builder - Build Track Final Submission">>>>
            \o [i \in 1..Len(STEPS) |-> stepLine(STEPS[i], arts[STEPS[i].number])]
            \o << linkLine("Lovable", Get(lnks, "lovable")),
                  linkLine("GitHub", Get(lnks, "github")),
                  linkLine("Deploy", Get(lnks, "deploy")) >>,
          <<"\n">> )

\* the Copy Final Submission button: navigator.clipboard.writeText(summary)
handleCopySubmission ==
    /\ PageOf(location.pathname) = "ProofPage"
    /\ getFirstIncompleteStep(artifacts) = 0
    /\ clipboard' = Str(submissionSummary(artifacts, links))
    /\ UNCHANGED <<sessionVars, storage, location, trackVars, draftVars, links>>

-----------------------------------------------------------------------------
(* The resume draft: readResumeDraft and the pages that call it *)

RESUME_STORAGE_KEY == "resumeBuilderData"

\* what reading a property of null or undefined throws
TypeError == [t |-> "TypeError"]

\* v.key : the property; a TypeError on null and undefined, and a TypeError
\* stays one in whatever is computed from it
Prop(v, key) ==
    IF v.t \in {"undefined", "null", "TypeError"} THEN TypeError ELSE Get(v, key)

\* a value with a TypeError in it stands for an evaluation that threw
RECURSIVE Throws(_)
Throws(v) ==
    CASE v.t = "TypeError" -> TRUE
      [] v.t = "array"     -> \E i \in DOMAIN v.a : Throws(v.a[i])
      [] v.t = "object"    -> \E key \in DOMAIN v.o : Throws(v.o[key])
      [] OTHER             -> FALSE

\* String.prototype.split(sep) on the characters of a string: the pieces between
\* the separators, `piece` being the one under way
RECURSIVE SplitFrom(_, _, _)
SplitFrom(s, sep, piece) ==
    IF s = <<>> THEN <<piece>>
    ELSE IF Head(s) = sep THEN <<piece>> \o SplitFrom(Tail(s), sep, <<>>)
    ELSE SplitFrom(Tail(s), sep, Append(piece, Head(s)))

Split(s, sep) == SplitFrom(s, sep, <<>>)

\* crypto.randomUUID(): the n-th id it hands out, unlike every other id
randomUUID(n) == Str(<<"uuid-", ToString(n)>>)

createEducationEntry(id) ==
    Obj([id |-> id, school |-> EmptyString, degree |-> EmptyString, year |-> EmptyString])

createExperienceEntry(id) ==
    Obj([id |-> id, company |-> EmptyString, role |-> EmptyString,
         duration |-> EmptyString, bullet |-> EmptyString])

createProjectEntry(id) ==
    Obj([id |-> id, title |-> EmptyString, description |-> EmptyString,
         techStack |-> Arr(<<>>), liveUrl |-> EmptyString, githubUrl |-> EmptyString])

toSafeString(value) ==
    IF value.t = "TypeError" THEN value
    ELSE IF TypeOf(value) = "string" THEN value ELSE EmptyString

\* a variant of isRecord that tests the type alone: typeof null is 'object'
isRecordByType(item) == TypeOf(item) = "object"

\* the filter of the three lists: Boolean(item) && typeof item === 'object'
isRecord(item) == Truthy(item) /\ TypeOf(item) = "object"

\* Array.isArray(value) ? value.filter(isRecord) : [] : the items that are mapped
recordsOf(value) == IF value.t = "array" THEN SelectSeq(value.a, isRecord) ELSE <<>>

\* a variant of entryId that draws a new id for every entry
entryIdAlwaysFresh(item, fresh) == fresh

\* toSafeString(item.id) || crypto.randomUUID(), `fresh` being the id drawn
entryId(item, fresh) == OrElse(toSafeString(Prop(item, "id")), fresh)

\* The ids of the entries made of `items`, in order, n ids having been handed
\* out before: [ids, n], n counting the ids handed out afterwards.
RECURSIVE entryIds(_, _)
entryIds(items, n) ==
    IF items = <<>> THEN [ids |-> <<>>, n |-> n]
    ELSE LET id   == entryId(Head(items), randomUUID(n))
             rest == entryIds(Tail(items), IF id = randomUUID(n) THEN n + 1 ELSE n)
         IN  [ids |-> <<id>> \o rest.ids, n |-> rest.n]

educationEntry(item, id) ==
    Obj([ id     |-> id,
          school |-> toSafeString(Prop(item, "school")),
          degree |-> toSafeString(Prop(item, "degree")),
          year   |-> toSafeString(Prop(item, "year")) ])

experienceEntry(item, id) ==
    Obj([ id       |-> id,
          company  |-> toSafeString(Prop(item, "company")),
          role     |-> toSafeString(Prop(item, "role")),
          duration |-> toSafeString(Prop(item, "duration")),
          bullet   |-> toSafeString(Prop(item, "bullet")) ])

\* Array.isArray(item.techStack) ? item.techStack.map(toSafeString).filter(Boolean) : []
techStackOf(value) ==
    IF value.t = "array"
    THEN Arr(SelectSeq([i \in 1..Len(value.a) |-> toSafeString(value.a[i])], Truthy))
    ELSE Arr(<<>>)

projectEntry(item, id) ==
    Obj([ id          |-> id,
          title       |-> toSafeString(Prop(item, "title")),
          description |-> toSafeString(Prop(item, "description")),
          techStack   |-> techStackOf(Prop(item, "techStack")),
          liveUrl     |-> toSafeString(Prop(item, "liveUrl")),
          githubUrl   |-> toSafeString(Prop(item, "githubUrl")) ])

\* const education = Array.isArray(raw.education) ? ...filter(...).map(...) : []
\* as [a, n]: the entries, and the ids handed out afterwards
educationOf(value, n) ==
    LET items == recordsOf(value)
        drawn == entryIds(items, n)
    IN  [a |-> [i \in 1..Len(items) |-> educationEntry(items[i], drawn.ids[i])], n |-> drawn.n]

experienceOf(value, n) ==
    LET items == recordsOf(value)
        drawn == entryIds(items, n)
    IN  [a |-> [i \in 1..Len(items) |-> experienceEntry(items[i], drawn.ids[i])], n |-> drawn.n]

projectsOf(value, n) ==
    LET items == recordsOf(value)
        drawn == entryIds(items, n)
    IN  [a |-> [i \in 1..Len(items) |-> projectEntry(items[i], drawn.ids[i])], n |-> drawn.n]

\* Array.isArray(value) ? value.map(item => toSafeString(item).trim()).filter(Boolean) : []
parseSkillArray(value) ==
    IF value.t = "array"
    THEN SelectSeq([i \in 1..Len(value.a) |-> Str(Trim(toSafeString(value.a[i]).s))], Truthy)
    ELSE <<>>

\* toSafeString(raw.skills).split(',').map(item => item.trim()).filter(Boolean)
legacySkillsOf(raw) ==
    LET pieces == Split(toSafeString(Get(raw, "skills")).s, ",")
    IN  SelectSeq([i \in 1..Len(pieces) |-> Str(Trim(pieces[i]))], Truthy)

\* readResumeDraft() on a store, n ids having been handed out before:
\* [draft, n], the draft returned and the ids handed out afterwards
readResumeDraft(store, n) ==
    LET parsed == parseJson(getItem(store, RESUME_STORAGE_KEY))
    IN  IF ~Truthy(parsed) \/ TypeOf(parsed) # "object"
        THEN [ draft |-> Obj([ name              |-> EmptyString,
                               email             |-> EmptyString,
                               phone             |-> EmptyString,
                               location          |-> EmptyString,
                               summary           |-> EmptyString,
                               education         |-> Arr(<<createEducationEntry(randomUUID(n))>>),
                               experience        |-> Arr(<<createExperienceEntry(randomUUID(n + 1))>>),
                               projects          |-> Arr(<<createProjectEntry(randomUUID(n + 2))>>),
                               technicalSkills   |-> Arr(<<>>),
                               softSkills        |-> Arr(<<>>),
                               toolsTechnologies |-> Arr(<<>>),
                               github            |-> EmptyString,
                               linkedin          |-> EmptyString ]),
               n |-> n + 3 ]
        ELSE LET raw               == parsed
                 education         == educationOf(Get(raw, "education"), n)
                 experience        == experienceOf(Get(raw, "experience"), education.n)
                 projects          == projectsOf(Get(raw, "projects"), experience.n)
                 technicalSkills   == parseSkillArray(Get(raw, "technicalSkills"))
                 softSkills        == parseSkillArray(Get(raw, "softSkills"))
                 toolsTechnologies == parseSkillArray(Get(raw, "toolsTechnologies"))
                 legacySkills      == legacySkillsOf(raw)
                 n1 == projects.n
                 n2 == IF Len(education.a) # 0 THEN n1 ELSE n1 + 1
                 n3 == IF Len(experience.a) # 0 THEN n2 ELSE n2 + 1
                 n4 == IF Len(projects.a) # 0 THEN n3 ELSE n3 + 1
             IN  [ draft |-> Obj([
                     name              |-> toSafeString(Get(raw, "name")),
                     email             |-> toSafeString(Get(raw, "email")),
                     phone             |-> toSafeString(Get(raw, "phone")),
                     location          |-> toSafeString(Get(raw, "location")),
                     summary           |-> toSafeString(Get(raw, "summary")),
                     education         |-> Arr(IF Len(education.a) # 0 THEN education.a
                                               ELSE <<createEducationEntry(randomUUID(n1))>>),
                     experience        |-> Arr(IF Len(experience.a) # 0 THEN experience.a
                                               ELSE <<createExperienceEntry(randomUUID(n2))>>),
                     projects          |-> Arr(IF Len(projects.a) # 0 THEN projects.a
                                               ELSE <<createProjectEntry(randomUUID(n3))>>),
                     technicalSkills   |-> Arr(IF Len(technicalSkills) # 0 THEN technicalSkills
                                               ELSE legacySkills),
                     softSkills        |-> Arr(softSkills),
                     toolsTechnologies |-> Arr(toolsTechnologies),
                     github            |-> toSafeString(Get(raw, "github")),
                     linkedin          |-> toSafeString(Get(raw, "linkedin")) ]),
                   n |-> n4 ]

TEMPLATE_STORAGE_KEY == "resumeBuilderTemplate"

TEMPLATE_OPTIONS == <<"Classic", "Modern", "Minimal">>

\* The text under TEMPLATE_STORAGE_KEY is a plain string, not JSON: it is its
\* one chunk. readTemplateChoice(): the stored value when it is one of the
\* three templates, 'Classic' otherwise.
readTemplateChoice(store) ==
    LET value == getItem(store, TEMPLATE_STORAGE_KEY)
    IN  IF value.t = "text" /\ value.x \in {<<"Classic">>, <<"Modern">>, <<"Minimal">>}
        THEN Head(value.x) ELSE "Classic"

ACCENT_STORAGE_KEY == "resumeBuilderAccentTheme"

\* the ids of ACCENT_THEMES
ACCENT_THEMES == <<"teal", "navy", "burgundy", "forest", "charcoal">>

\* readAccentChoice().id : ACCENT_THEMES.find((theme) => theme.id === value) ?? ACCENT_THEMES[0]
readAccentChoice(store) ==
    LET value == getItem(store, ACCENT_STORAGE_KEY)
    IN  IF value.t = "text" /\ \E i \in 1..Len(ACCENT_THEMES) : value.x = <<ACCENT_THEMES[i]>>
        THEN Head(value.x) ELSE ACCENT_THEMES[1]

\* A page whose useState initializer is readResumeDraft() is mounted at a
\* route; `persists` tells whether it has the effect that writes the draft
\* back. Its other effects write the template and the accent theme it read.
\* A draft whose evaluation threw leaves the page without one.
MountDraftPage(route, persists) ==
    \E read \in {readResumeDraft(storage, uuid)} :
        /\ read.n <= MaxUuid
        /\ uuid' = read.n
        /\ location' = [pathname |-> route, state |-> Null]
        /\ draft' = IF Throws(read.draft) THEN TypeError ELSE read.draft
        /\ storage' = IF Throws(read.draft) THEN storage
                      ELSE LET chosen == setItem(setItem(storage, TEMPLATE_STORAGE_KEY,
                                                         <<readTemplateChoice(storage)>>),
                                                 ACCENT_STORAGE_KEY, <<readAccentChoice(storage)>>)
                           IN  IF persists
                               THEN setItem(chosen, RESUME_STORAGE_KEY, JSONstringify(read.draft))
                               ELSE chosen
        /\ template' = readTemplateChoice(storage)
        /\ UNCHANGED <<sessionVars, edits, trackVars, proofVars>>

\* BuilderPage: useState(() => readResumeDraft()) and the effect
\* localStorage.setItem(RESUME_STORAGE_KEY, JSON.stringify(draft))
OpenBuilder == MountDraftPage(BUILDER_ROUTE, TRUE)

\* CleanPreviewPage: useState(() => readResumeDraft()); it does not write the draft
OpenPreview == MountDraftPage(PREVIEW_ROUTE, FALSE)

-----------------------------------------------------------------------------
(* The readiness score of a draft (src/unnamed/part_000) *)

LowerCase == <<"a", "b", "c", "d", "e", "f", "g", "h", "i", "j", "k", "l", "m",
               "n", "o", "p", "q", "r", "s", "t", "u", "v", "w", "x", "y", "z">>
UpperCase == <<"A", "B", "C", "D", "E", "F", "G", "H", "I", "J", "K", "L", "M",
               "N", "O", "P", "Q", "R", "S", "T", "U", "V", "W", "X", "Y", "Z">>
Digits == {"0", "1", "2", "3", "4", "5", "6", "7", "8", "9"}

\* \w of a regular expression
WordChars ==
    {LowerCase[i] : i \in 1..26} \cup {UpperCase[i] : i \in 1..26} \cup Digits \cup {"_"}

\* what the flag i (and toLowerCase) does to a character
LowerChar(c) ==
    IF \E i \in 1..26 : UpperCase[i] = c
    THEN LowerCase[CHOOSE i \in 1..26 : UpperCase[i] = c] ELSE c

\* String.prototype.toLowerCase
toLowerCase(s) == [i \in 1..Len(s) |-> LowerChar(s[i])]

\* the words of /\b(built|led|designed|improved|implemented|created|optimized|developed|automated)\b/i
SummaryVerbs ==
    { <<"b", "u", "i", "l", "t">>,
      <<"l", "e", "d">>,
      <<"d", "e", "s", "i", "g", "n", "e", "d">>,
      <<"i", "m", "p", "r", "o", "v", "e", "d">>,
      <<"i", "m", "p", "l", "e", "m", "e", "n", "t", "e", "d">>,
      <<"c", "r", "e", "a", "t", "e", "d">>,
      <<"o", "p", "t", "i", "m", "i", "z", "e", "d">>,
      <<"d", "e", "v", "e", "l", "o", "p", "e", "d">>,
      <<"a", "u", "t", "o", "m", "a", "t", "e", "d">> }

\* \b before position i of s, and after position i - 1: exactly one of the two
\* neighbours is a word character
wordBoundary(s, i) ==
    (i > 1 /\ s[i - 1] \in WordChars) # (i <= Len(s) /\ s[i] \in WordChars)

\* a variant of the test that an empty summary passes
summaryHasActionVerbOrNone(summary) ==
    \/ summary = <<>>
    \/ \E verb \in SummaryVerbs : \E i \in 1..(Len(summary) - Len(verb) + 1) :
           toLowerCase(SubSeq(summary, i, i + Len(verb) - 1)) = verb

\* The regular expression's test(summary): one of the words, in any case,
\* stands somewhere in the summary between two word boundaries.
summaryHasActionVerb(summary) ==
    \E verb \in SummaryVerbs : \E i \in 1..(Len(summary) - Len(verb) + 1) :
        /\ toLowerCase(SubSeq(summary, i, i + Len(verb) - 1)) = verb
        /\ wordBoundary(summary, i)
        /\ wordBoundary(summary, i + Len(verb))

\* a variant of the condition that leaves out trim()
hasTextUntrimmed(value) == value.s # <<>>

\* value.trim() as a condition: the trimmed string is not empty
hasText(value) == Trim(value.s) # <<>>

nonEmptyEducation(d) ==
    SelectSeq(d.o.education.a,
              LAMBDA entry : \/ hasText(entry.o.school)
                             \/ hasText(entry.o.degree)
                             \/ hasText(entry.o.year))

nonEmptyExperience(d) ==
    SelectSeq(d.o.experience.a,
              LAMBDA entry : \/ hasText(entry.o.company)
                             \/ hasText(entry.o.role)
                             \/ hasText(entry.o.duration)
                             \/ hasText(entry.o.bullet))

nonEmptyProjects(d) ==
    SelectSeq(d.o.projects.a,
              LAMBDA entry : \/ hasText(entry.o.title)
                             \/ hasText(entry.o.description)
                             \/ Len(entry.o.techStack.a) > 0
                             \/ hasText(entry.o.liveUrl)
                             \/ hasText(entry.o.githubUrl))

\* a variant of skillItems that counts the technical skills only
skillItemsTechnical(d) == d.o.technicalSkills.a

\* [...draft.technicalSkills, ...draft.softSkills, ...draft.toolsTechnologies]
skillItems(d) == d.o.technicalSkills.a \o d.o.softSkills.a \o d.o.toolsTechnologies.a

\* The if/else chain of computeAtsResult, in its order: whether the condition
\* holds, what `score +=` adds when it does, what is pushed when it does not.
atsChecks(d) ==
    LET summary == Trim(d.o.summary.s)
        hasExperienceWithBullet ==
            \E i \in 1..Len(nonEmptyExperience(d)) :
                Len(Trim(nonEmptyExperience(d)[i].o.bullet.s)) > 0
        hasEducation == Len(nonEmptyEducation(d)) > 0
        totalSkills  == Len(skillItems(d))
        hasProject   == Len(nonEmptyProjects(d)) > 0
    IN  << [ok |-> hasText(d.o.name), points |-> 10,
            suggestion |-> "Add your full name (+10 points)."],
           [ok |-> hasText(d.o.email), points |-> 10,
            suggestion |-> "Add an email address (+10 points)."],
           [ok |-> Len(summary) > 50, points |-> 10,
            suggestion |-> "Add a professional summary (+10 points)."],
           [ok |-> hasExperienceWithBullet, points |-> 15,
            suggestion |-> "Add an experience entry with bullet impact (+15 points)."],
           [ok |-> hasEducation, points |-> 10,
            suggestion |-> "Add at least one education entry (+10 points)."],
           [ok |-> totalSkills >= 5, points |-> 10,
            suggestion |-> "Add at least 5 skills (+10 points)."],
           [ok |-> hasProject, points |-> 10,
            suggestion |-> "Add at least one project (+10 points)."],
           [ok |-> hasText(d.o.phone), points |-> 5,
            suggestion |-> "Add your phone number (+5 points)."],
           [ok |-> hasText(d.o.linkedin), points |-> 5,
            suggestion |-> "Add your LinkedIn URL (+5 points)."],
           [ok |-> hasText(d.o.github), points |-> 5,
            suggestion |-> "Add your GitHub URL (+5 points)."],
           [ok |-> summaryHasActionVerb(summary), points |-> 10,
            suggestion |-> "Use action verbs in summary (+10 points)."] >>

\* a variant of the chain that puts each suggestion in front of the earlier ones
RECURSIVE runChecksUnshift(_, _, _)
runChecksUnshift(checks, score, suggestions) ==
    IF checks = <<>> THEN [score |-> score, suggestions |-> suggestions]
    ELSE IF Head(checks).ok
         THEN runChecksUnshift(Tail(checks), score + Head(checks).points, suggestions)
         ELSE runChecksUnshift(Tail(checks), score, <<Head(checks).suggestion>> \o suggestions)

\* the chain run over its checks: `score` and `suggestions` as it leaves them
RECURSIVE runChecks(_, _, _)
runChecks(checks, score, suggestions) ==
    IF checks = <<>> THEN [score |-> score, suggestions |-> suggestions]
    ELSE IF Head(checks).ok
         THEN runChecks(Tail(checks), score + Head(checks).points, suggestions)
         ELSE runChecks(Tail(checks), score, Append(suggestions, Head(checks).suggestion))

MathMin(a, b) == IF a <= b THEN a ELSE b

\* a variant of computeAtsResult that returns the points still missing
computeAtsResultMissing(d) ==
    LET result == runChecks(atsChecks(d), 0, <<>>)
    IN  [score |-> MathMin(100, result.score) - 100, suggestions |-> result.suggestions]

\* return { score: Math.min(100, score), suggestions }
computeAtsResult(d) ==
    LET result == runChecks(atsChecks(d), 0, <<>>)
    IN  [score |-> MathMin(100, result.score), suggestions |-> result.suggestions]

\* Array.prototype.slice(0, n)
SliceTo(a, n) == SubSeq(a, 1, MathMin(n, Len(a)))

\* computeAtsResult(draft).suggestions.slice(0, 3)
computeTopImprovements(d) == SliceTo(computeAtsResult(d).suggestions, 3)

-----------------------------------------------------------------------------
(* The renderers of a draft (src/unnamed/part_000) *)

\* items.filter((item) => item.trim()) on strings: the items are kept as they are
keepWithText(items) == SelectSeq(items, hasText)

\* the strings of a list of string values
textsOf(items) == [i \in 1..Len(items) |-> items[i].s]

\* [draft.email, draft.phone, draft.location].map((item) => item.trim()).filter(Boolean).join(' | ')
contactLineOf(d) ==
    Join(SelectSeq([i \in 1..3 |-> Trim(<<d.o.email, d.o.phone, d.o.location>>[i].s)],
                   LAMBDA item : item # <<>>),
         <<" ", "|", " ">>)

\* a variant without the placeholder
orNothing(s) == s

\* a || '-' on strings
orDash(s) == IF s # <<>> THEN s ELSE <<"-">>

\* the lines education.forEach pushes
RECURSIVE educationLines(_)
educationLines(entries) ==
    IF entries = <<>> THEN <<>>
    ELSE LET entry == Head(entries).o
         IN  << <<"-", " ">> \o Join(textsOf(keepWithText(<<entry.school, entry.degree, entry.year>>)),
                                    <<" ", "|", " ">>) >>
             \o educationLines(Tail(entries))

\* the lines experience.forEach pushes
RECURSIVE experienceLines(_)
experienceLines(entries) ==
    IF entries = <<>> THEN <<>>
    ELSE LET entry == Head(entries).o
         IN  << <<"-", " ">> \o Join(textsOf(keepWithText(<<entry.company, entry.role, entry.duration>>)),
                                    <<" ", "|", " ">>) >>
             \o (IF hasText(entry.bullet) THEN << <<" ", " ">> \o Trim(entry.bullet.s) >> ELSE <<>>)
             \o experienceLines(Tail(entries))

\* the lines projects.forEach pushes
RECURSIVE projectLines(_)
projectLines(entries) ==
    IF entries = <<>> THEN <<>>
    ELSE LET entry == Head(entries).o
         IN  << <<"-", " ">> \o (IF hasText(entry.title) THEN Trim(entry.title.s)
                                 ELSE <<"P", "r", "o", "j", "e", "c", "t">>) >>
             \o (IF hasText(entry.description)
                 THEN << <<" ", " ">> \o Trim(entry.description.s) >> ELSE <<>>)
             \o (IF Len(entry.techStack.a) # 0
                 THEN << <<" ", " ", "T", "e", "c", "h", " ", "S", "t", "a", "c", "k", ":", " ">>
                           \o Join(textsOf(entry.techStack.a), <<",", " ">>) >>
                 ELSE <<>>)
             \o (IF hasText(entry.liveUrl)
                 THEN << <<" ", " ", "L", "i", "v", "e", ":", " ">> \o Trim(entry.liveUrl.s) >>
                 ELSE <<>>)
             \o (IF hasText(entry.githubUrl)
                 THEN << <<" ", " ", "G", "i", "t", "H", "u", "b", ":", " ">> \o Trim(entry.githubUrl.s) >>
                 ELSE <<>>)
             \o projectLines(Tail(entries))

\* the lines of the Skills section
skillLines(d) ==
    (IF Len(d.o.technicalSkills.a) # 0
     THEN << <<"T", "e", "c", "h", "n", "i", "c", "a", "l", " ", "S", "k", "i", "l", "l", "s", ":", " ">>
               \o Join(textsOf(d.o.technicalSkills.a), <<",", " ">>) >>
     ELSE <<>>)
    \o (IF Len(d.o.softSkills.a) # 0
        THEN << <<"S", "o", "f", "t", " ", "S", "k", "i", "l", "l", "s", ":", " ">>
                  \o Join(textsOf(d.o.softSkills.a), <<",", " ">>) >>
        ELSE <<>>)
    \o (IF Len(d.o.toolsTechnologies.a) # 0
        THEN << <<"T", "o", "o", "l", "s", " ", "&", " ", "T", "e", "c", "h", "n", "o", "l", "o", "g", "i", "e", "s", ":", " ">>
                  \o Join(textsOf(d.o.toolsTechnologies.a), <<",", " ">>) >>
        ELSE <<>>)

\* the array `lines` of toPlainTextResume when it is joined
plainTextLines(d) ==
    LET education  == nonEmptyEducation(d)
        experience == nonEmptyExperience(d)
        projects   == nonEmptyProjects(d)
        skills     == skillItems(d)
    IN  << <<"N", "a", "m", "e">>, orDash(Trim(d.o.name.s)), <<>> >>
        \o << <<"C", "o", "n", "t", "a", "c", "t">>, orDash(contactLineOf(d)), <<>> >>
        \o (IF hasText(d.o.summary)
            THEN << <<"S", "u", "m", "m", "a", "r", "y">>, Trim(d.o.summary.s), <<>> >>
            ELSE <<>>)
        \o (IF Len(education) # 0
            THEN << <<"E", "d", "u", "c", "a", "t", "i", "o", "n">> >>
                 \o educationLines(education) \o << <<>> >>
            ELSE <<>>)
        \o (IF Len(experience) # 0
            THEN << <<"E", "x", "p", "e", "r", "i", "e", "n", "c", "e">> >>
                 \o experienceLines(experience) \o << <<>> >>
            ELSE <<>>)
        \o (IF Len(projects) # 0
            THEN << <<"P", "r", "o", "j", "e", "c", "t", "s">> >>
                 \o projectLines(projects) \o << <<>> >>
            ELSE <<>>)
        \o (IF Len(skills) # 0
            THEN << <<"S", "k", "i", "l", "l", "s">> >> \o skillLines(d) \o << <<>> >>
            ELSE <<>>)
        \o (IF hasText(d.o.github) \/ hasText(d.o.linkedin)
            THEN << <<"L", "i", "n", "k", "s">> >>
                 \o (IF hasText(d.o.github) THEN <<Trim(d.o.github.s)>> ELSE <<>>)
                 \o (IF hasText(d.o.linkedin) THEN <<Trim(d.o.linkedin.s)>> ELSE <<>>)
            ELSE <<>>)

\* return lines.join('\n').trim()
toPlainTextResume(d) == Trim(Join(plainTextLines(d), <<"\n">>))

\* `template-${template.toLowerCase()}`
toTemplateClass(option) ==
    CASE option = "Classic" -> "template-classic"
      [] option = "Modern"  -> "template-modern"
      [] option = "Minimal" -> "template-minimal"

\* an element, or nothing: cond ? <element> : null
when(cond, element) == IF cond THEN <<element>> ELSE <<>>

\* The six sections ResumePreviewDocument builds before it looks at the
\* template, each a list of one section or of none (null).
previewSections(d) ==
    LET previewEducation  == nonEmptyEducation(d)
        previewExperience == nonEmptyExperience(d)
        previewProjects   == nonEmptyProjects(d)
        previewSkills     == skillItems(d)
    IN  [ sectionSummary |->
              when(hasText(d.o.summary), [h3 |-> "Summary", body |-> <<Trim(d.o.summary.s)>>]),
          sectionEducation |->
              when(Len(previewEducation) # 0,
                   [h3 |-> "Education",
                    body |-> [i \in 1..Len(previewEducation) |->
                        [key |-> previewEducation[i].o.id,
                         p   |-> Join(textsOf(keepWithText(<<previewEducation[i].o.school,
                                                             previewEducation[i].o.degree,
                                                             previewEducation[i].o.year>>)),
                                      <<" ", "|", " ">>)]]]),
          sectionExperience |->
              when(Len(previewExperience) # 0,
                   [h3 |-> "Experience",
                    body |-> [i \in 1..Len(previewExperience) |->
                        [key |-> previewExperience[i].o.id,
                         p   |-> Join(textsOf(keepWithText(<<previewExperience[i].o.company,
                                                             previewExperience[i].o.role,
                                                             previewExperience[i].o.duration>>)),
                                      <<" ", "|", " ">>),
                         bullet |-> when(hasText(previewExperience[i].o.bullet),
                                         Trim(previewExperience[i].o.bullet.s))]]]),
          sectionProjects |->
              when(Len(previewProjects) # 0,
                   [h3 |-> "Projects",
                    body |-> [i \in 1..Len(previewProjects) |->
                        LET entry == previewProjects[i].o
                        IN  [key         |-> entry.id,
                             title       |-> when(hasText(entry.title), Trim(entry.title.s)),
                             description |-> when(hasText(entry.description),
                                                  Trim(entry.description.s)),
                             chips       |-> textsOf(entry.techStack.a),
                             live        |-> when(hasText(entry.liveUrl), Trim(entry.liveUrl.s)),
                             github      |-> when(hasText(entry.githubUrl),
                                                  Trim(entry.githubUrl.s))]]]),
          sectionSkills |->
              when(Len(previewSkills) # 0,
                   [h3 |-> "Skills",
                    body |-> when(Len(d.o.technicalSkills.a) # 0,
                                  [p |-> "Technical Skills",
                                   chips |-> textsOf(d.o.technicalSkills.a)])
                             \o when(Len(d.o.softSkills.a) # 0,
                                     [p |-> "Soft Skills", chips |-> textsOf(d.o.softSkills.a)])
                             \o when(Len(d.o.toolsTechnologies.a) # 0,
                                     [p |-> "Tools & Technologies",
                                      chips |-> textsOf(d.o.toolsTechnologies.a)])]),
          sectionLinks |->
              when(hasText(d.o.github) \/ hasText(d.o.linkedin),
                   [h3 |-> "Links",
                    body |-> when(hasText(d.o.github), Trim(d.o.github.s))
                             \o when(hasText(d.o.linkedin), Trim(d.o.linkedin.s))]) ]

\* a variant of ResumePreviewDocument whose Modern layout has no education section
ResumePreviewDocumentShortMain(d, option) ==
    LET s           == previewSections(d)
        contactLine == contactLineOf(d)
        heading     == when(hasText(d.o.name), [h2 |-> Trim(d.o.name.s)])
                       \o when(contactLine # <<>>, [p |-> contactLine])
    IN  IF option = "Modern"
        THEN << [className |-> "template-modern", place |-> "aside",
                 children |-> heading \o s.sectionSkills \o s.sectionLinks],
                [className |-> "template-modern", place |-> "main",
                 children |-> s.sectionSummary \o s.sectionExperience \o s.sectionProjects] >>
        ELSE << [className |-> toTemplateClass(option), place |-> "div",
                 children |-> (IF hasText(d.o.name) \/ contactLine # <<>> THEN heading ELSE <<>>)
                              \o s.sectionSummary \o s.sectionEducation \o s.sectionExperience
                              \o s.sectionProjects \o s.sectionSkills \o s.sectionLinks] >>

\* What ResumePreviewDocument returns for a template: the containers it
\* renders (aside and main for Modern, one div otherwise) and their children
\* in order, null children left out.
ResumePreviewDocument(d, option) ==
    LET s           == previewSections(d)
        contactLine == contactLineOf(d)
        heading     == when(hasText(d.o.name), [h2 |-> Trim(d.o.name.s)])
                       \o when(contactLine # <<>>, [p |-> contactLine])
    IN  IF option = "Modern"
        THEN << [className |-> "template-modern", place |-> "aside",
                 children |-> heading \o s.sectionSkills \o s.sectionLinks],
                [className |-> "template-modern", place |-> "main",
                 children |-> s.sectionSummary \o s.sectionExperience \o s.sectionProjects
                              \o s.sectionEducation] >>
        ELSE << [className |-> toTemplateClass(option), place |-> "div",
                 children |-> (IF hasText(d.o.name) \/ contactLine # <<>> THEN heading ELSE <<>>)
                              \o s.sectionSummary \o s.sectionEducation \o s.sectionExperience
                              \o s.sectionProjects \o s.sectionSkills \o s.sectionLinks] >>

-----------------------------------------------------------------------------
(* The resume pages of the snapshot src/src/App.tsx: the draft keeps its *)
(* skills in one comma-separated string and a project has no tech stack  *)

createProjectEntry_App(id) ==
    Obj([id |-> id, title |-> EmptyString, description |-> EmptyString])

projectEntry_App(item, id) ==
    Obj([ id          |-> id,
          title       |-> toSafeString(Prop(item, "title")),
          description |-> toSafeString(Prop(item, "description")) ])

projectsOf_App(value, n) ==
    LET items == recordsOf(value)
        drawn == entryIds(items, n)
    IN  [a |-> [i \in 1..Len(items) |-> projectEntry_App(items[i], drawn.ids[i])], n |-> drawn.n]

\* readResumeDraft() of App.tsx on a store, n ids having been handed out before
readResumeDraft_App(store, n) ==
    LET parsed == parseJson(getItem(store, RESUME_STORAGE_KEY))
    IN  IF ~Truthy(parsed) \/ TypeOf(parsed) # "object"
        THEN [ draft |-> Obj([ name       |-> EmptyString,
                               email      |-> EmptyString,
                               phone      |-> EmptyString,
                               location   |-> EmptyString,
                               summary    |-> EmptyString,
                               education  |-> Arr(<<createEducationEntry(randomUUID(n))>>),
                               experience |-> Arr(<<createExperienceEntry(randomUUID(n + 1))>>),
                               projects   |-> Arr(<<createProjectEntry_App(randomUUID(n + 2))>>),
                               skills     |-> EmptyString,
                               github     |-> EmptyString,
                               linkedin   |-> EmptyString ]),
               n |-> n + 3 ]
        ELSE LET raw        == parsed
                 education  == educationOf(Get(raw, "education"), n)
                 experience == experienceOf(Get(raw, "experience"), education.n)
                 projects   == projectsOf_App(Get(raw, "projects"), experience.n)
                 n1 == projects.n
                 n2 == IF Len(education.a) # 0 THEN n1 ELSE n1 + 1
                 n3 == IF Len(experience.a) # 0 THEN n2 ELSE n2 + 1
                 n4 == IF Len(projects.a) # 0 THEN n3 ELSE n3 + 1
             IN  [ draft |-> Obj([
                     name       |-> toSafeString(Get(raw, "name")),
                     email      |-> toSafeString(Get(raw, "email")),
                     phone      |-> toSafeString(Get(raw, "phone")),
                     location   |-> toSafeString(Get(raw, "location")),
                     summary    |-> toSafeString(Get(raw, "summary")),
                     education  |-> Arr(IF Len(education.a) # 0 THEN education.a
                                        ELSE <<createEducationEntry(randomUUID(n1))>>),
                     experience |-> Arr(IF Len(experience.a) # 0 THEN experience.a
                                        ELSE <<createExperienceEntry(randomUUID(n2))>>),
                     projects   |-> Arr(IF Len(projects.a) # 0 THEN projects.a
                                        ELSE <<createProjectEntry_App(randomUUID(n3))>>),
                     skills     |-> toSafeString(Get(raw, "skills")),
                     github     |-> toSafeString(Get(raw, "github")),
                     linkedin   |-> toSafeString(Get(raw, "linkedin")) ]),
                   n |-> n4 ]

\* A resume page of App.tsx is mounted at a route: readResumeDraft() and
\* readTemplateChoice(), the effect that writes the template and, on the
\* builder (`persists`), the effect that writes the draft.
MountDraftPage_App(route, persists) ==
    \E read \in {readResumeDraft_App(storage, uuid)} :
        /\ read.n <= MaxUuid
        /\ uuid' = read.n
        /\ location' = [pathname |-> route, state |-> Null]
        /\ draft' = IF Throws(read.draft) THEN TypeError ELSE read.draft
        /\ storage' = IF Throws(read.draft) THEN storage
                      ELSE LET chosen == setItem(storage, TEMPLATE_STORAGE_KEY,
                                                 <<readTemplateChoice(storage)>>)
                           IN  IF persists
                               THEN setItem(chosen, RESUME_STORAGE_KEY, JSONstringify(read.draft))
                               ELSE chosen
        /\ template' = readTemplateChoice(storage)
        /\ UNCHANGED <<sessionVars, edits, trackVars, proofVars>>

OpenBuilder_App == MountDraftPage_App(BUILDER_ROUTE, TRUE)

OpenPreview_App == MountDraftPage_App(PREVIEW_ROUTE, FALSE)

\* the draft a page holds is one of App.tsx: its skills are one string
IsAppDraft(d) == d.t = "object" /\ "skills" \in DOMAIN d.o

nonEmptyProjects_App(d) ==
    SelectSeq(d.o.projects.a,
              LAMBDA entry : hasText(entry.o.title) \/ hasText(entry.o.description))

\* draft.skills.split(',').map((item) => item.trim()).filter(Boolean)
skillItems_App(d) ==
    LET pieces == Split(d.o.skills.s, ",")
    IN  SelectSeq([i \in 1..Len(pieces) |-> Trim(pieces[i])], LAMBDA item : item # <<>>)

\* value.trim().split(/\s+/).filter(Boolean).length : the maximal runs of
\* characters that are no whitespace, counted by the places where one starts
countWords(value) ==
    Cardinality({i \in 1..Len(value) :
                    /\ value[i] \notin Whitespace
                    /\ (i = 1 \/ value[i - 1] \in Whitespace)})

\* /(\d|%)/.test(text)
hasDigitOrPercent(text) == \E i \in 1..Len(text) : text[i] \in Digits \cup {"%"}

\* the bullets of the non-empty experience entries and the descriptions of the
\* non-empty projects, joined by ' ', hold a digit or a percent sign
hasNumericImpact(d) ==
    LET experience == nonEmptyExperience(d)
        projects   == nonEmptyProjects_App(d)
    IN  hasDigitOrPercent(
            Join([i \in 1..Len(experience) |-> experience[i].o.bullet.s]
                     \o [i \in 1..Len(projects) |-> projects[i].o.description.s],
                 <<" ">>))

hasCompleteEducation(d) ==
    \E i \in 1..Len(d.o.education.a) :
        /\ hasText(d.o.education.a[i].o.school)
        /\ hasText(d.o.education.a[i].o.degree)
        /\ hasText(d.o.education.a[i].o.year)

\* the if/else chain of computeAtsResult of App.tsx, in its order
atsChecks_App(d) ==
    LET words == countWords(d.o.summary.s)
    IN  << [ok |-> words >= 40 /\ words <= 120, points |-> 15,
            suggestion |-> "Write a stronger summary (40-120 words)."],
           [ok |-> Len(nonEmptyProjects_App(d)) >= 2, points |-> 10,
            suggestion |-> "Add at least 2 projects."],
           [ok |-> Len(nonEmptyExperience(d)) >= 1, points |-> 10,
            suggestion |-> "Add at least 1 experience entry."],
           [ok |-> Len(skillItems_App(d)) >= 8, points |-> 10,
            suggestion |-> "Add more skills (target 8+)."],
           [ok |-> hasText(d.o.github) \/ hasText(d.o.linkedin), points |-> 10,
            suggestion |-> "Add GitHub or LinkedIn link."],
           [ok |-> hasNumericImpact(d), points |-> 15,
            suggestion |-> "Add measurable impact (numbers) in bullets."],
           [ok |-> hasCompleteEducation(d), points |-> 10,
            suggestion |-> "Complete all education fields."] >>

\* return { score: Math.min(100, score), suggestions: suggestions.slice(0, 3) }
computeAtsResult_App(d) ==
    LET result == runChecks(atsChecks_App(d), 0, <<>>)
    IN  [score |-> MathMin(100, result.score), suggestions |-> SliceTo(result.suggestions, 3)]

\* computeTopImprovements of App.tsx: a list of its own
computeTopImprovements_App(d) ==
    SliceTo( when(Len(nonEmptyProjects_App(d)) < 2, "Add at least 2 projects.")
               \o when(~hasNumericImpact(d), "Add measurable impact (numbers).")
               \o when(countWords(d.o.summary.s) < 40, "Expand summary to at least 40 words.")
               \o when(Len(skillItems_App(d)) < 8, "Add more skills (target 8+).")
               \o when(Len(nonEmptyExperience(d)) < 1,
                       "Add internship or project work in experience."),
             3 )

\* the lines projects.forEach pushes in App.tsx
RECURSIVE projectLines_App(_)
projectLines_App(entries) ==
    IF entries = <<>> THEN <<>>
    ELSE LET entry == Head(entries).o
         IN  << <<"-", " ">> \o (IF hasText(entry.title) THEN Trim(entry.title.s)
                                 ELSE <<"P", "r", "o", "j", "e", "c", "t">>) >>
             \o (IF hasText(entry.description)
                 THEN << <<" ", " ">> \o Trim(entry.description.s) >> ELSE <<>>)
             \o projectLines_App(Tail(entries))

\* the array `lines` of toPlainTextResume of App.tsx when it is joined
plainTextLines_App(d) ==
    LET education  == nonEmptyEducation(d)
        experience == nonEmptyExperience(d)
        projects   == nonEmptyProjects_App(d)
        skills     == skillItems_App(d)
    IN  << <<"N", "a", "m", "e">>, orDash(Trim(d.o.name.s)), <<>> >>
        \o << <<"C", "o", "n", "t", "a", "c", "t">>, orDash(contactLineOf(d)), <<>> >>
        \o (IF hasText(d.o.summary)
            THEN << <<"S", "u", "m", "m", "a", "r", "y">>, Trim(d.o.summary.s), <<>> >>
            ELSE <<>>)
        \o (IF Len(education) # 0
            THEN << <<"E", "d", "u", "c", "a", "t", "i", "o", "n">> >>
                 \o educationLines(education) \o << <<>> >>
            ELSE <<>>)
        \o (IF Len(experience) # 0
            THEN << <<"E", "x", "p", "e", "r", "i", "e", "n", "c", "e">> >>
                 \o experienceLines(experience) \o << <<>> >>
            ELSE <<>>)
        \o (IF Len(projects) # 0
            THEN << <<"P", "r", "o", "j", "e", "c", "t", "s">> >>
                 \o projectLines_App(projects) \o << <<>> >>
            ELSE <<>>)
        \o (IF Len(skills) # 0
            THEN << <<"S", "k", "i", "l", "l", "s">>, Join(skills, <<",", " ">>), <<>> >>
            ELSE <<>>)
        \o (IF hasText(d.o.github) \/ hasText(d.o.linkedin)
            THEN << <<"L", "i", "n", "k", "s">> >>
                 \o (IF hasText(d.o.github) THEN <<Trim(d.o.github.s)>> ELSE <<>>)
                 \o (IF hasText(d.o.linkedin) THEN <<Trim(d.o.linkedin.s)>> ELSE <<>>)
            ELSE <<>>)

toPlainTextResume_App(d) == Trim(Join(plainTextLines_App(d), <<"\n">>))

-----------------------------------------------------------------------------
(* BuilderPage and CleanPreviewPage: the handlers of a mounted page *)

\* The resume pages take no more edits and copies than this.
MaxEdits == 2

\* a resume page of part_000 is mounted at the current location and holds a draft
Mounted(page) ==
    PageOf(location.pathname) = page /\ draft.t = "object" /\ ~IsAppDraft(draft)

\* a resume page of App.tsx is mounted at the current location and holds a draft
Mounted_App(page) == PageOf(location.pathname) = page /\ IsAppDraft(draft)

\* setDraft(next) on BuilderPage, and the effect it triggers:
\* localStorage.setItem(RESUME_STORAGE_KEY, JSON.stringify(draft))
setDraft(next) ==
    /\ Mounted("BuilderPage")
    /\ edits < MaxEdits
    /\ edits' = edits + 1
    /\ draft' = next
    /\ storage' = setItem(storage, RESUME_STORAGE_KEY, JSONstringify(next))
    /\ UNCHANGED <<sessionVars, location, uuid, template, trackVars, proofVars>>

\* a summary of 51 characters without an action verb
Summary51 == <<"E", "n", "g", "i", "n", "e", "e", "r", " ", "o", "f", " ", "m", "a", "n", "y", " ", "s", "m", "a", "l", "l", " ", "a", "n", "d", " ", "c", "a", "r", "e", "f", "u", "l", " ", "w", "e", "b", " ", "p", "r", "o", "d", "u", "c", "t", "s", " ", "a", "b", "c">>

\* 50 characters and a trailing blank
Summary50Padded == <<"E", "n", "g", "i", "n", "e", "e", "r", " ", "o", "f", " ", "m", "a", "n", "y", " ", "s", "m", "a", "l", "l", " ", "a", "n", "d", " ", "c", "a", "r", "e", "f", "u", "l", " ", "w", "e", "b", " ", "p", "r", "o", "d", "u", "c", "t", "s", " ", "a", "b", " ">>

\* a short summary with an action verb
SummaryLed == <<"L", "e", "d", " ", "i", "t">>

\* a word followed by n - 1 times " a": n words
RECURSIVE WordsFrom(_, _)
WordsFrom(first, n) == IF n <= 1 THEN first ELSE WordsFrom(first, n - 1) \o <<" ", "a">>

\* a summary of 60 words that starts with Built
SummaryBuilt60 == WordsFrom(<<"B", "u", "i", "l", "t">>, 60)

ScalarFields == {"name", "email", "phone", "location", "summary", "github", "linkedin"}

\* what the user leaves in a scalar field
FieldInputs(field) ==
    CASE field = "name"    -> {<<>>, <<" ">>, <<"A", "d", "a">>}
      [] field = "summary" -> {Summary51, Summary50Padded, SummaryLed, SummaryBuilt60}
      [] OTHER             -> {<<"x">>}

\* onChange of a scalar input: setDraft({ ...draft, [field]: e.target.value })
setField(field, value) == setDraft(Obj([draft.o EXCEPT ![field] = Str(value)]))

\* prev.<list>.map((entry) => (entry.id === id ? { ...entry, [field]: value } : entry))
updateEntries(entries, id, field, value) ==
    [i \in 1..Len(entries) |->
        IF entries[i].o.id = id THEN Obj([entries[i].o EXCEPT ![field] = value])
        ELSE entries[i]]

\* the ids of the entries of a list
idsOf(entries) == {entries[i].o.id : i \in 1..Len(entries)}

updateEducation(id, field, value) ==
    setDraft(Obj([draft.o EXCEPT
        !.education = Arr(updateEntries(draft.o.education.a, id, field, Str(value)))]))

updateExperience(id, field, value) ==
    setDraft(Obj([draft.o EXCEPT
        !.experience = Arr(updateEntries(draft.o.experience.a, id, field, Str(value)))]))

updateProject(id, field, value) ==
    setDraft(Obj([draft.o EXCEPT
        !.projects = Arr(updateEntries(draft.o.projects.a, id, field, Str(value)))]))

\* addUniqueChip(existing, value)
addUniqueChip(existing, value) ==
    LET normalized == Trim(value)
    IN  IF normalized = <<>> THEN existing
        ELSE IF \E i \in 1..Len(existing) :
                    toLowerCase(existing[i].s) = toLowerCase(normalized)
             THEN existing
             ELSE Append(existing, Str(normalized))

\* removeChip(existing, value)
removeChip(existing, value) ==
    SelectSeq(existing, LAMBDA item : toLowerCase(item.s) # toLowerCase(value))

SkillCategories == {"technicalSkills", "softSkills", "toolsTechnologies"}

\* what the user types into a chip input before Enter
ChipInputs == {<<" ", "G", "o">>, <<"g", "o">>}

\* Enter in a skill input: addSkillChip(category, input)
addSkillChip(category, rawValue) ==
    setDraft(Obj([draft.o EXCEPT ![category] = Arr(addUniqueChip(draft.o[category].a, rawValue))]))

\* a click on a skill chip: removeChip(prev[category], skill)
removeSkillChip(category, skill) ==
    setDraft(Obj([draft.o EXCEPT ![category] = Arr(removeChip(draft.o[category].a, skill))]))

\* Enter in the tech input of a project: addProjectTechChip(projectId, input)
addProjectTechChip(projectId, rawValue) ==
    /\ Trim(rawValue) # <<>>
    /\ setDraft(Obj([draft.o EXCEPT !.projects =
           Arr([i \in 1..Len(draft.o.projects.a) |->
                   LET entry == draft.o.projects.a[i]
                   IN  IF entry.o.id = projectId
                       THEN Obj([entry.o EXCEPT
                                !.techStack = Arr(addUniqueChip(entry.o.techStack.a,
                                                                Trim(rawValue)))])
                       ELSE entry])]))

\* a click on a tech chip of a project: removeProjectTechChip(projectId, tech)
removeProjectTechChip(projectId, tech) ==
    setDraft(Obj([draft.o EXCEPT !.projects =
        Arr([i \in 1..Len(draft.o.projects.a) |->
                LET entry == draft.o.projects.a[i]
                IN  IF entry.o.id = projectId
                    THEN Obj([entry.o EXCEPT !.techStack = Arr(removeChip(entry.o.techStack.a, tech))])
                    ELSE entry])]))

\* setDraft(next) by a handler that draws `drawn` ids from crypto.randomUUID(),
\* and the effect that persists the draft
setDraftDrawing(next, drawn) ==
    /\ Mounted("BuilderPage")
    /\ edits < MaxEdits
    /\ uuid + drawn <= MaxUuid
    /\ edits' = edits + 1
    /\ uuid' = uuid + drawn
    /\ draft' = next
    /\ storage' = setItem(storage, RESUME_STORAGE_KEY, JSONstringify(next))
    /\ UNCHANGED <<sessionVars, location, template, trackVars, proofVars>>

\* the Add Education button
addEducation ==
    setDraftDrawing(Obj([draft.o EXCEPT !.education =
        Arr(Append(draft.o.education.a, createEducationEntry(randomUUID(uuid))))]), 1)

\* the Add Experience button
addExperience ==
    setDraftDrawing(Obj([draft.o EXCEPT !.experience =
        Arr(Append(draft.o.experience.a, createExperienceEntry(randomUUID(uuid))))]), 1)

\* addProject()
addProject ==
    setDraftDrawing(Obj([draft.o EXCEPT !.projects =
        Arr(Append(draft.o.projects.a, createProjectEntry(randomUUID(uuid))))]), 1)

\* deleteProject(projectId): prev.projects.length > 1
\*   ? prev.projects.filter((entry) => entry.id !== projectId) : [createProjectEntry()]
deleteProject(projectId) ==
    IF Len(draft.o.projects.a) > 1
    THEN setDraftDrawing(Obj([draft.o EXCEPT !.projects =
             Arr(SelectSeq(draft.o.projects.a, LAMBDA entry : entry.o.id # projectId))]), 0)
    ELSE setDraftDrawing(Obj([draft.o EXCEPT !.projects =
             Arr(<<createProjectEntry(randomUUID(uuid))>>)]), 1)

\* the draft loadSampleData sets, n ids having been handed out before
sampleDraft(n) ==
    Obj([ name     |-> Str(<<"S", "h", "r", "e", "e", "n", "i", "v", "a", "s", " ", "N", "a", "y", "a", "k", "a", "w", "a", "d", "i">>),
          email    |-> Str(<<"s", "h", "r", "e", "e", "n", "i", "v", "a", "s", "@", "e", "x", "a", "m", "p", "l", "e", ".", "c", "o", "m">>),
          phone    |-> Str(<<"+", "9", "1", "-", "9", "0", "0", "0", "0", "-", "0", "0", "0", "0", "0">>),
          location |-> Str(<<"B", "e", "n", "g", "a", "l", "u", "r", "u", ",", " ", "I", "n", "d", "i", "a">>),
          summary  |-> Str(<<"F", "r", "o", "n", "t", "e", "n", "d", " ", "e", "n", "g", "i", "n", "e", "e", "r", " ", "f", "o", "c", "u", "s", "e", "d", " ", "o", "n", " ", "c", "l", "e", "a", "n", ",", " ", "m", "e", "a", "s", "u", "r", "a", "b", "l", "e", " ", "p", "r", "o", "d", "u", "c", "t", " ", "U", "X", ".">>),
          education |-> Arr(<<Obj([ id     |-> randomUUID(n),
                                    school |-> Str(<<"K", "o", "d", "N", "e", "s", "t", " ", "A", "c", "a", "d", "e", "m", "y">>),
                                    degree |-> Str(<<"B", ".", "T", "e", "c", "h", " ", "C", "S", "E">>),
                                    year   |-> Str(<<"2", "0", "2", "6">>) ])>>),
          experience |-> Arr(<<Obj([ id       |-> randomUUID(n + 1),
                                     company  |-> Str(<<"A", "c", "m", "e", " ", "L", "a", "b", "s">>),
                                     role     |-> Str(<<"F", "r", "o", "n", "t", "e", "n", "d", " ", "I", "n", "t", "e", "r", "n">>),
                                     duration |-> Str(<<"2", "0", "2", "5">>),
                                     bullet   |-> Str(<<"I", "m", "p", "r", "o", "v", "e", "d", " ", "d", "a", "s", "h", "b", "o", "a", "r", "d", " ", "l", "o", "a", "d", " ", "s", "p", "e", "e", "d", " ", "b", "y", " ", "3", "2", "%", " ", "f", "o", "r", " ", "5", "0", "0", "+", " ", "d", "a", "i", "l", "y", " ", "u", "s", "e", "r", "s", ".">>) ])>>),
          projects |-> Arr(<<
              Obj([ id          |-> randomUUID(n + 2),
                    title       |-> Str(<<"P", "l", "a", "c", "e", "m", "e", "n", "t", " ", "P", "l", "a", "t", "f", "o", "r", "m">>),
                    description |-> Str(<<"B", "u", "i", "l", "t", " ", "m", "o", "d", "u", "l", "a", "r", " ", "p", "r", "e", "p", " ", "w", "o", "r", "k", "f", "l", "o", "w", " ", "U", "I", " ", "a", "n", "d", " ", "r", "e", "d", "u", "c", "e", "d", " ", "t", "a", "s", "k", " ", "c", "o", "m", "p", "l", "e", "t", "i", "o", "n", " ", "t", "i", "m", "e", " ", "b", "y", " ", "2", "8", "%", ".">>),
                    techStack   |-> Arr(<<Str(<<"R", "e", "a", "c", "t">>), Str(<<"T", "y", "p", "e", "S", "c", "r", "i", "p", "t">>), Str(<<"N", "o", "d", "e", ".", "j", "s">>)>>),
                    liveUrl     |-> Str(<<"h", "t", "t", "p", "s", ":", "/", "/", "e", "x", "a", "m", "p", "l", "e", ".", "c", "o", "m", "/", "p", "l", "a", "c", "e", "m", "e", "n", "t", "-", "p", "l", "a", "t", "f", "o", "r", "m">>),
                    githubUrl   |-> Str(<<"h", "t", "t", "p", "s", ":", "/", "/", "g", "i", "t", "h", "u", "b", ".", "c", "o", "m", "/", "s", "h", "r", "e", "e", "n", "i", "v", "a", "s", "-", "n", "a", "y", "a", "k", "a", "w", "a", "d", "i", "/", "p", "l", "a", "c", "e", "m", "e", "n", "t", "-", "p", "l", "a", "t", "f", "o", "r", "m">>) ]),
              Obj([ id          |-> randomUUID(n + 3),
                    title       |-> Str(<<"R", "e", "s", "u", "m", "e", " ", "A", "n", "a", "l", "y", "z", "e", "r">>),
                    description |-> Str(<<"I", "m", "p", "l", "e", "m", "e", "n", "t", "e", "d", " ", "d", "e", "t", "e", "r", "m", "i", "n", "i", "s", "t", "i", "c", " ", "c", "h", "e", "c", "k", "s", " ", "t", "h", "a", "t", " ", "l", "i", "f", "t", "e", "d", " ", "p", "r", "o", "f", "i", "l", "e", " ", "c", "o", "m", "p", "l", "e", "t", "e", "n", "e", "s", "s", " ", "t", "o", " ", "9", "0", "%", ".">>),
                    techStack   |-> Arr(<<Str(<<"T", "y", "p", "e", "S", "c", "r", "i", "p", "t">>), Str(<<"G", "r", "a", "p", "h", "Q", "L">>), Str(<<"P", "o", "s", "t", "g", "r", "e", "S", "Q", "L">>)>>),
                    liveUrl     |-> EmptyString,
                    githubUrl   |-> Str(<<"h", "t", "t", "p", "s", ":", "/", "/", "g", "i", "t", "h", "u", "b", ".", "c", "o", "m", "/", "s", "h", "r", "e", "e", "n", "i", "v", "a", "s", "-", "n", "a", "y", "a", "k", "a", "w", "a", "d", "i", "/", "r", "e", "s", "u", "m", "e", "-", "a", "n", "a", "l", "y", "z", "e", "r">>) ]) >>),
          technicalSkills   |-> Arr(<<Str(<<"R", "e", "a", "c", "t">>), Str(<<"T", "y", "p", "e", "S", "c", "r", "i", "p", "t">>), Str(<<"N", "o", "d", "e", ".", "j", "s">>), Str(<<"P", "o", "s", "t", "g", "r", "e", "S", "Q", "L">>), Str(<<"G", "r", "a", "p", "h", "Q", "L">>)>>),
          softSkills        |-> Arr(<<Str(<<"T", "e", "a", "m", " ", "L", "e", "a", "d", "e", "r", "s", "h", "i", "p">>), Str(<<"P", "r", "o", "b", "l", "e", "m", " ", "S", "o", "l", "v", "i", "n", "g">>)>>),
          toolsTechnologies |-> Arr(<<Str(<<"G", "i", "t">>), Str(<<"D", "o", "c", "k", "e", "r">>), Str(<<"A", "W", "S">>)>>),
          github   |-> Str(<<"h", "t", "t", "p", "s", ":", "/", "/", "g", "i", "t", "h", "u", "b", ".", "c", "o", "m", "/", "s", "h", "r", "e", "e", "n", "i", "v", "a", "s", "-", "n", "a", "y", "a", "k", "a", "w", "a", "d", "i">>),
          linkedin |-> Str(<<"h", "t", "t", "p", "s", ":", "/", "/", "l", "i", "n", "k", "e", "d", "i", "n", ".", "c", "o", "m", "/", "i", "n", "/", "s", "h", "r", "e", "e", "n", "i", "v", "a", "s">>) ])

\* loadSampleData()
loadSampleData == setDraftDrawing(sampleDraft(uuid), 4)

TECHNICAL_SUGGESTIONS ==
    <<<<"T", "y", "p", "e", "S", "c", "r", "i", "p", "t">>, <<"R", "e", "a", "c", "t">>, <<"N", "o", "d", "e", ".", "j", "s">>, <<"P", "o", "s", "t", "g", "r", "e", "S", "Q", "L">>, <<"G", "r", "a", "p", "h", "Q", "L">>>>
SOFT_SUGGESTIONS == <<<<"T", "e", "a", "m", " ", "L", "e", "a", "d", "e", "r", "s", "h", "i", "p">>, <<"P", "r", "o", "b", "l", "e", "m", " ", "S", "o", "l", "v", "i", "n", "g">>>>
TOOLS_SUGGESTIONS == <<<<"G", "i", "t">>, <<"D", "o", "c", "k", "e", "r">>, <<"A", "W", "S">>>>

\* suggestions.reduce((list, skill) => addUniqueChip(list, skill), existing)
RECURSIVE reduceChips(_, _)
reduceChips(suggestions, list) ==
    IF suggestions = <<>> THEN list
    ELSE reduceChips(Tail(suggestions), addUniqueChip(list, Head(suggestions)))

\* the updater the timer of suggestSkills hands to setDraft
withSuggestions(prev) ==
    Obj([prev.o EXCEPT
        !.technicalSkills   = Arr(reduceChips(TECHNICAL_SUGGESTIONS, prev.o.technicalSkills.a)),
        !.softSkills        = Arr(reduceChips(SOFT_SUGGESTIONS, prev.o.softSkills.a)),
        !.toolsTechnologies = Arr(reduceChips(TOOLS_SUGGESTIONS, prev.o.toolsTechnologies.a))])

\* suggestSkills(): the button is disabled while a suggestion is under way;
\* setIsSuggestingSkills(true) and window.setTimeout(..., 1000)
suggestSkills ==
    /\ Mounted("BuilderPage")
    /\ suggesting = "idle"
    /\ edits < MaxEdits
    /\ edits' = edits + 1
    /\ suggesting' = "pending"
    /\ UNCHANGED <<storage, location, draft, draft2, artifacts2, path2, uuid, template,
                   trackVars, proofVars>>

\* The timer fires: its callback hands the updater to setDraft, which queues
\* it; the page has not rendered yet.
suggestTimeout ==
    /\ Mounted("BuilderPage")
    /\ suggesting = "pending"
    /\ suggesting' = "queued"
    /\ UNCHANGED <<storage, location, draft, draft2, artifacts2, path2, uuid, template,
                   edits, trackVars, proofVars>>

\* The page renders with the queued updater applied to the draft, and the
\* effect persists the draft.
renderSuggestion ==
    /\ Mounted("BuilderPage")
    /\ suggesting = "queued"
    /\ suggesting' = "idle"
    /\ draft' = withSuggestions(draft)
    /\ storage' = setItem(storage, RESUME_STORAGE_KEY, JSONstringify(withSuggestions(draft)))
    /\ UNCHANGED <<location, draft2, artifacts2, path2, uuid, template, edits, trackVars,
                   proofVars>>

\* onChange of a scalar input before the page has rendered the queued updater:
\* the handler is the one of the last render, so setDraft({ ...draft, [field]:
\* value }) is given the draft of that render; queued after the updater, the
\* object replaces what the updater returns.
setFieldBeforeRender(field, value) ==
    /\ Mounted("BuilderPage")
    /\ suggesting = "queued"
    /\ edits < MaxEdits
    /\ edits' = edits + 1
    /\ suggesting' = "idle"
    /\ \E next \in {Obj([draft.o EXCEPT ![field] = Str(value)])} :
           /\ draft' = next
           /\ storage' = setItem(storage, RESUME_STORAGE_KEY, JSONstringify(next))
    /\ UNCHANGED <<location, draft2, artifacts2, path2, uuid, template, trackVars, proofVars>>

\* a click in TemplateTabs of either page: setTemplate(option) and the effect
\* localStorage.setItem(TEMPLATE_STORAGE_KEY, template)
setTemplate(option) ==
    /\ Mounted("BuilderPage") \/ Mounted("CleanPreviewPage")
    /\ edits < MaxEdits
    /\ edits' = edits + 1
    /\ template' = option
    /\ storage' = setItem(storage, TEMPLATE_STORAGE_KEY, <<option>>)
    /\ UNCHANGED <<sessionVars, location, draft, uuid, trackVars, proofVars>>

\* the Copy Resume as Text button of CleanPreviewPage:
\* navigator.clipboard.writeText(toPlainTextResume(draft))
handleCopyText ==
    /\ Mounted("CleanPreviewPage")
    /\ edits < MaxEdits
    /\ edits' = edits + 1
    /\ clipboard' = Str(toPlainTextResume(draft))
    /\ UNCHANGED <<sessionVars, storage, location, draft, uuid, template, trackVars, links>>

\* setDraft(next) on the BuilderPage of App.tsx, and its persist effect
setDraft_App(next) ==
    /\ Mounted_App("BuilderPage")
    /\ edits < MaxEdits
    /\ edits' = edits + 1
    /\ draft' = next
    /\ storage' = setItem(storage, RESUME_STORAGE_KEY, JSONstringify(next))
    /\ UNCHANGED <<sessionVars, location, uuid, template, trackVars, proofVars>>

\* a summary of 40 words
Summary40 == WordsFrom(<<"I">>, 40)

\* what the user leaves in a scalar field of the builder of App.tsx
FieldInputs_App(field) ==
    CASE field = "summary" -> {Summary40, SummaryLed}
      [] field = "skills"  -> {<<"C", ",", " ", ",", "G", "o", " ", ",">>,
                               <<"C", ",", "G", "o", ",", " ", "J", "S", ",", "T", "S", ",", "S", "Q", "L", ",", "G", "i", "t", ",", "A", "W", "S", ",", "V", "i", "m">>}
      [] OTHER             -> {<<"x">>}

setField_App(field, value) == setDraft_App(Obj([draft.o EXCEPT ![field] = Str(value)]))

updateEducation_App(id, field, value) ==
    setDraft_App(Obj([draft.o EXCEPT
        !.education = Arr(updateEntries(draft.o.education.a, id, field, Str(value)))]))

updateExperience_App(id, field, value) ==
    setDraft_App(Obj([draft.o EXCEPT
        !.experience = Arr(updateEntries(draft.o.experience.a, id, field, Str(value)))]))

updateProject_App(id, field, value) ==
    setDraft_App(Obj([draft.o EXCEPT
        !.projects = Arr(updateEntries(draft.o.projects.a, id, field, Str(value)))]))

\* the Add Project button of App.tsx: [...prev.projects, createProjectEntry()]
addProject_App ==
    /\ uuid < MaxUuid
    /\ Mounted_App("BuilderPage")
    /\ edits < MaxEdits
    /\ edits' = edits + 1
    /\ uuid' = uuid + 1
    /\ \E next \in {Obj([draft.o EXCEPT
                       !.projects = Arr(Append(draft.o.projects.a,
                                               createProjectEntry_App(randomUUID(uuid))))])} :
           /\ draft' = next
           /\ storage' = setItem(storage, RESUME_STORAGE_KEY, JSONstringify(next))
    /\ UNCHANGED <<sessionVars, location, template, trackVars, proofVars>>

\* a click in TemplateTabs of either page of App.tsx
setTemplate_App(option) ==
    /\ Mounted_App("BuilderPage") \/ Mounted_App("CleanPreviewPage")
    /\ edits < MaxEdits
    /\ edits' = edits + 1
    /\ template' = option
    /\ storage' = setItem(storage, TEMPLATE_STORAGE_KEY, <<option>>)
    /\ UNCHANGED <<sessionVars, location, draft, uuid, trackVars, proofVars>>

\* the Copy Resume as Text button of the CleanPreviewPage of App.tsx
handleCopyText_App ==
    /\ Mounted_App("CleanPreviewPage")
    /\ edits < MaxEdits
    /\ edits' = edits + 1
    /\ clipboard' = Str(toPlainTextResume_App(draft))
    /\ UNCHANGED <<sessionVars, storage, location, draft, uuid, template, trackVars, links>>

-----------------------------------------------------------------------------
(* What localStorage holds when the application is opened *)

\* an artifact a previous visit committed
OldArtifact ==
    Obj([ notes          |-> Str(<<"o">>),
          status         |-> Str(<<"error">>),
          screenshotName |-> Str(<<"old.png">>),
          uploadedAt     |-> Str(toISOString(0)) ])

\* artifact texts no commit of this application writes: a record without a
\* timestamp, a record with an empty one, and text that is not JSON
NoTimestampText ==
    JSONstringify(Obj([ notes          |-> Str(<<"o">>),
                        status         |-> Str(<<"worked">>),
                        screenshotName |-> Str(<<"old.png">>) ]))
EmptyTimestampText ==
    JSONstringify(Obj([ notes          |-> Str(<<"o">>),
                        status         |-> Str(<<"worked">>),
                        screenshotName |-> Str(<<"old.png">>),
                        uploadedAt     |-> EmptyString ]))
MalformedText == <<Punct("{"), JunkTok("oops")>>

ForeignTexts == {NoTimestampText, EmptyTimestampText, MalformedText}

\* steps 1..m committed by earlier visits, the others never
CommittedUpTo(m) ==
    [key \in {getArtifactKey(n) : n \in 1..m} |-> JSONstringify(OldArtifact)]

\* how many steps earlier visits committed: none, one, two, all but the last
PersistedPrefixes == {0, 1, 2, Len(STEPS) - 1}

\* The stores the application is opened on: the steps committed in order up to
\* some step, and a store whose second step holds a foreign text while the
\* steps around it are committed.
PersistedStores ==
    {CommittedUpTo(m) : m \in PersistedPrefixes}
        \cup {setItem(CommittedUpTo(3), getArtifactKey(2), text) : text \in ForeignTexts}

-----------------------------------------------------------------------------
(* The drafts localStorage holds when a resume page is opened *)

\* the sequences over S of length at most n
SeqsUpTo(S, n) == UNION {[1..m -> S] : m \in 0..n}

\* what a field that should hold a string holds
RawScalars ==
    { Undefined, Null, Num(7), Bool(TRUE), Arr(<<Str(<<"A">>)>>),
      EmptyString, Str(<<"A", "d", "a">>) }

\* what a field that should hold a list holds when it holds no list
RawNonLists == { Undefined, Null, Str(<<"x">>), Obj([id |-> Str(<<"e", "0">>)]) }

\* items of a persisted education list: not records, records without an id or
\* with an id that is no string or an empty one, records with fields of the
\* wrong type, and full records
RawEducationItems ==
    { Null,
      Num(1),
      Str(<<"x">>),
      Arr(<<>>),
      Obj([school |-> Str(<<"M", "I", "T">>), degree |-> Num(2), year |-> Null]),
      Obj([id |-> EmptyString, school |-> Str(<<"M", "I", "T">>)]),
      Obj([id |-> Str(<<"e", "1">>), school |-> Str(<<"M", "I", "T">>),
           degree |-> Str(<<"B", "S">>), year |-> Str(<<"2", "0">>)]) }

RawExperienceItems ==
    { Null,
      Obj([company |-> Str(<<"A", "c", "m", "e">>), bullet |-> Num(3)]),
      Obj([id |-> Str(<<"x", "1">>), company |-> Str(<<"A", "c", "m", "e">>),
           role |-> Str(<<"D", "e", "v">>), duration |-> Str(<<"2", "y">>),
           bullet |-> Str(<<"B", "u", "i", "l", "t">>)]) }

RawProjectItems ==
    { Bool(FALSE),
      Obj([title |-> Str(<<"T">>), techStack |-> Str(<<"R", "e", "a", "c", "t">>)]),
      Obj([id |-> Num(4), techStack |-> Arr(<<Str(<<"G", "o">>), Num(1), EmptyString, Null,
                                              Str(<<" ">>)>>),
           liveUrl |-> Null]),
      Obj([id |-> Str(<<"p", "1">>), title |-> Str(<<"T">>), description |-> Str(<<"D">>),
           techStack |-> Arr(<<Str(<<"G", "o">>)>>), liveUrl |-> Str(<<"l">>),
           githubUrl |-> Str(<<"g">>)]) }

\* what the three canonical skill fields hold
RawTechnicalSkills ==
    { Undefined, Str(<<"G", "o">>), Arr(<<>>), Arr(<<Str(<<" ">>), Num(1)>>),
      Arr(<<Str(<<"G", "o">>), Null, Str(<<" ", "R", " ">>)>>) }
RawSoftSkills  == { Undefined, Arr(<<Str(<<"T", "e", "a", "m">>)>>) }
RawToolsSkills == { Undefined, Arr(<<>>), Arr(<<Str(<<"G", "i", "t">>)>>) }

\* what the legacy field `skills` holds
RawLegacySkills ==
    { Undefined, Num(3), EmptyString, Str(<<",", " ">>),
      Str(<<"C", ",", " ", ",", "J", "S", " ", ",">>) }

\* a draft an earlier visit persisted
OldDraft ==
    [ name              |-> Str(<<"A", "d", "a">>),
      email             |-> Str(<<"a", "@", "b">>),
      phone             |-> EmptyString,
      location          |-> Str(<<"L">>),
      summary           |-> Str(<<"S">>),
      education         |-> Arr(<<createEducationEntry(Str(<<"e", "0">>))>>),
      experience        |-> Arr(<<createExperienceEntry(Str(<<"x", "0">>))>>),
      projects          |-> Arr(<<createProjectEntry(Str(<<"p", "0">>))>>),
      technicalSkills   |-> Arr(<<Str(<<"G", "o">>)>>),
      softSkills        |-> Arr(<<>>),
      toolsTechnologies |-> Arr(<<>>),
      github            |-> Str(<<"g">>),
      linkedin          |-> EmptyString ]

\* The objects a persisted draft text holds: the old draft with some of its
\* fields replaced, one family of replacements per part of the draft.
RawDrafts ==
    {Obj([name |-> a, linkedin |-> b]) : a \in RawScalars, b \in RawScalars}
    \cup {Obj([OldDraft EXCEPT !.name = a, !.summary = b]) :
              a \in RawScalars, b \in {Undefined, Num(0)}}
    \cup {Obj([OldDraft EXCEPT !.education = e]) : e \in RawNonLists}
    \cup {Obj([OldDraft EXCEPT !.education = Arr(e)]) : e \in SeqsUpTo(RawEducationItems, MaxItems)}
    \cup {Obj([OldDraft EXCEPT !.experience = Arr(e)]) : e \in SeqsUpTo(RawExperienceItems, MaxItems)}
    \cup {Obj([OldDraft EXCEPT !.projects = Arr(e)]) : e \in SeqsUpTo(RawProjectItems, MaxItems)}
    \cup {Obj([name |-> Str(<<"A", "d", "a">>), technicalSkills |-> t, softSkills |-> q,
               toolsTechnologies |-> u, skills |-> l]) :
              t \in RawTechnicalSkills, q \in RawSoftSkills, u \in RawToolsSkills,
              l \in RawLegacySkills}

\* The texts under RESUME_STORAGE_KEY: empty text, text that is not JSON, JSON
\* that is no object (null, numbers, a string, a boolean), arrays, and objects.
RawDraftTexts ==
    { <<>>,
      <<Punct("{"), KeyTok("name"), JunkTok("oops")>>,
      <<Punct("null")>>, <<NumTok(0)>>, <<NumTok(5)>>, <<StrTok(<<"x">>)>>, <<Punct("true")>>,
      JSONstringify(Arr(<<>>)),
      JSONstringify(Arr(<<Obj(OldDraft)>>)) }
    \cup {JSONstringify(raw) : raw \in RawDrafts}

\* The stores a resume page is opened on: no draft, or one of the texts.
DraftStores ==
    {[key \in {} |-> <<>>]}
        \cup {[key \in {RESUME_STORAGE_KEY} |-> text] : text \in RawDraftTexts}

\* a draft an earlier visit persisted to which a phone number and a summary are missing
AlmostFullDraft ==
    [ name              |-> Str(<<"A", "d", "a", " ", "L", "o", "v", "e", "l", "a", "c", "e">>),
      email             |-> Str(<<"a", "d", "a", "@", "x", ".", "i", "o">>),
      phone             |-> EmptyString,
      location          |-> Str(<<"L">>),
      summary           |-> EmptyString,
      education         |-> Arr(<<Obj([id |-> Str(<<"e", "0">>), school |-> Str(<<"M", "I", "T">>),
                                       degree |-> EmptyString, year |-> EmptyString])>>),
      experience        |-> Arr(<<Obj([id |-> Str(<<"x", "0">>), company |-> Str(<<"A", "c", "m", "e">>),
                                       role |-> EmptyString, duration |-> EmptyString,
                                       bullet |-> Str(<<"I", "m", "p", "r", "o", "v", "e", "d", " ", "t", "h", "r", "o", "u", "g", "h", "p", "u", "t", " ", "b", "y", " ", "4", "0", "%">>)])>>),
      projects          |-> Arr(<<Obj([id |-> Str(<<"p", "0">>), title |-> Str(<<"T">>),
                                       description |-> EmptyString, techStack |-> Arr(<<>>),
                                       liveUrl |-> EmptyString, githubUrl |-> EmptyString])>>),
      technicalSkills   |-> Arr(<<Str(<<"C">>), Str(<<"R", "u", "s", "t">>), Str(<<"S", "Q", "L">>)>>),
      softSkills        |-> Arr(<<Str(<<"T", "e", "a", "m">>)>>),
      toolsTechnologies |-> Arr(<<Str(<<"G", "i", "t">>), Str(<<"A", "W", "S">>)>>),
      github            |-> Str(<<"g">>),
      linkedin          |-> Str(<<"l">>) ]

\* a draft an earlier visit persisted with four skills and a project that has a tech stack only
PartialDraft ==
    [ OldDraft EXCEPT
        !.technicalSkills = Arr(<<Str(<<"C">>), Str(<<"R", "u", "s", "t">>)>>),
        !.softSkills = Arr(<<Str(<<"T", "e", "a", "m">>)>>),
        !.toolsTechnologies = Arr(<<Str(<<"G", "i", "t">>)>>),
        !.projects = Arr(<<Obj([id |-> Str(<<"p", "1">>), title |-> EmptyString,
                               description |-> EmptyString, techStack |-> Arr(<<Str(<<"G", "o">>)>>),
                               liveUrl |-> EmptyString, githubUrl |-> EmptyString])>>) ]

\* The stores a builder session starts on: no draft, or one of the two drafts.
BuilderStores ==
    {[key \in {} |-> <<>>]}
        \cup {[key \in {RESUME_STORAGE_KEY} |-> JSONstringify(Obj(d))] :
                  d \in {AlmostFullDraft, PartialDraft}}

\* submission links an earlier visit persisted: all three fields
OldLinksText ==
    JSONstringify(Obj([ lovable |-> Str(<<"l">>), github |-> EmptyString, deploy |-> Str(<<"d">>) ]))

\* texts under the key of the links that handleLinkChange never writes: an
\* object with one field, an object with a number in a field, text that is
\* not JSON, the JSON null and a JSON number
LinkTexts ==
    { OldLinksText,
      JSONstringify(Obj([ github |-> Str(<<"x">>) ])),
      JSONstringify(Obj([ lovable |-> Num(5), github |-> EmptyString, deploy |-> EmptyString ])),
      MalformedText,
      JSONstringify(Null),
      JSONstringify(Num(5)) }

\* artifact texts with a timestamp that no commit of this application writes:
\* a record of the timestamp alone, and one whose notes are a number
BareTimestampText == JSONstringify(Obj([ uploadedAt |-> Str(toISOString(0)) ]))
NumericNotesText ==
    JSONstringify(Obj([ notes          |-> Num(5),
                        status         |-> Str(<<"worked">>),
                        screenshotName |-> Str(<<"old.png">>),
                        uploadedAt     |-> Str(toISOString(0)) ]))

\* The stores the proof page is opened on: every step committed, with or
\* without a text under the key of the links, or with another text for the
\* record of the first step; a store whose last step is not committed; and
\* stores in which the record of the third step has no timestamp.
ProofStores ==
    {CommittedUpTo(Len(STEPS)), CommittedUpTo(Len(STEPS) - 1)}
        \cup {setItem(CommittedUpTo(Len(STEPS)), PROOF_LINKS_KEY, text) : text \in LinkTexts}
        \cup {setItem(CommittedUpTo(Len(STEPS)), getArtifactKey(1), text) :
                  text \in {BareTimestampText, NumericNotesText}}
        \cup {setItem(CommittedUpTo(Len(STEPS)), getArtifactKey(3), text) :
                  text \in {NoTimestampText, EmptyTimestampText}}

\* a draft under the key of the draft in which two projects carry the same id,
\* as do two education entries: text another program or an edit by hand left
TwinDraft ==
    [ OldDraft EXCEPT
        !.education = Arr(<<Obj([id |-> Str(<<"e", "0">>), school |-> Str(<<"M", "I", "T">>),
                                 degree |-> EmptyString, year |-> EmptyString]),
                            createEducationEntry(Str(<<"e", "0">>))>>),
        !.projects = Arr(<<Obj([id |-> Str(<<"p", "0">>), title |-> Str(<<"T">>),
                                description |-> EmptyString, techStack |-> Arr(<<>>),
                                liveUrl |-> EmptyString, githubUrl |-> EmptyString]),
                           createProjectEntry(Str(<<"p", "0">>))>>) ]

\* a draft an earlier visit persisted with two projects
PairDraft ==
    [ OldDraft EXCEPT
        !.projects = Arr(<<Obj([id |-> Str(<<"p", "0">>), title |-> Str(<<"T">>),
                                description |-> EmptyString, techStack |-> Arr(<<>>),
                                liveUrl |-> EmptyString, githubUrl |-> EmptyString]),
                           createProjectEntry(Str(<<"p", "1">>))>>) ]

\* The stores an editing session starts on: no draft, or one of the two drafts.
EditStores ==
    {[key \in {} |-> <<>>]}
        \cup {[key \in {RESUME_STORAGE_KEY} |-> JSONstringify(Obj(d))] :
                  d \in {TwinDraft, PairDraft}}

Init ==
    /\ storage \in PersistedStores
    /\ location = [pathname |-> HOME_ROUTE, state |-> Null]
    /\ redirects = 0
    /\ artifacts = [n \in StepNumbers |-> Null]
    /\ notes = EmptyString
    /\ status = EmptyString
    /\ screenshotName = EmptyString
    /\ now = 0
    /\ draft = Undefined
    /\ uuid = 0
    /\ template = Undefined
    /\ edits = 0
    /\ links = Undefined
    /\ clipboard = Undefined
    /\ suggesting = "idle"
    /\ draft2 = Undefined
    /\ artifacts2 = [n \in StepNumbers |-> Null]
    /\ path2 = <<>>

Next ==
    \/ \E stored \in {getInitialArtifacts(storage)} : \E url \in Urls : OpenUrl(url, stored)
    \/ \E i \in 1..Len(STEPS) : ClickRail(i)
    \/ ClickPrevious
    \/ ClickNext
    \/ \E value \in NoteInputs : SetNotes(value)
    \/ \E value \in {<<"worked">>, <<"error">>} : SetStatus(value)
    \/ \E fileName \in FileNames : handleScreenshotChange(fileName)
    \/ handleUploadArtifact

Spec == Init /\ [][Next]_vars

\* Two tabs on the build track, started on a store without artifacts: each
\* holds the artifact map it read when it was opened and what it committed itself.
SessionsInit == Init /\ storage = CommittedUpTo(0)

\* the forms the user of the second tab commits
Forms2 ==
    {<<EmptyString, Str(<<"worked">>), EmptyString>>, <<Str(<<"n">>), EmptyString, EmptyString>>}

SessionsNext ==
    \/ \E stored \in {getInitialArtifacts(storage)} : \E url \in Urls : OpenUrl(url, stored)
    \/ \E i \in 1..Len(STEPS) : ClickRail(i)
    \/ ClickPrevious
    \/ ClickNext
    \/ \E value \in {<<"worked">>, <<"error">>} : SetStatus(value)
    \/ handleUploadArtifact
    \/ \E url \in Urls : OpenUrl2(url)
    \/ \E i \in 1..Len(STEPS) : ClickRail2(i)
    \/ ClickNext2
    \/ \E form \in Forms2 : handleUploadArtifact2(form[1], form[2], form[3])

SpecSessions == SessionsInit /\ [][SessionsNext]_vars

\* The router one navigation at a time: a request mounts the page of the URL,
\* and each redirect of a page is a step of its own.

\* The most redirects counted after one request.
MaxRedirects == 3

\* the page at the current location has a redirect to make
RedirectPending ==
    \/ /\ PageOf(location.pathname) = "StepPage"
       /\ stepPageTarget(location.pathname, artifacts) # location.pathname
    \/ /\ PageOf(location.pathname) = "ProofPage"
       /\ getFirstIncompleteStep(artifacts) # 0

\* the form a StepPage at a pathname leaves: that of its step, or the one it had
FormAt(pathname, arts) ==
    IF findStep(stepSlug(pathname)) = 0
    THEN [notes |-> notes, status |-> status, screenshotName |-> screenshotName]
    ELSE FormOf(arts[STEPS[findStep(stepSlug(pathname))].number])

\* the user requests a URL of the build track once the page has settled: the
\* page is mounted and reads the artifacts; its effects have not run yet
Request(url) ==
    /\ ~RedirectPending
    /\ \E stored \in {getInitialArtifacts(storage)} :
       \E form \in {IF PageOf(url) = "ProofPage"
                    THEN [notes |-> EmptyString, status |-> EmptyString,
                          screenshotName |-> EmptyString]
                    ELSE FormAt(url, stored)} :
           /\ location' = [pathname |-> url, state |-> Null]
           /\ redirects' = 0
           /\ artifacts' = stored
           /\ notes' = form.notes
           /\ status' = form.status
           /\ screenshotName' = form.screenshotName
           /\ links' = IF PageOf(url) = "ProofPage" THEN getProofLinks(storage) ELSE Undefined
    /\ UNCHANGED <<sessionVars, storage, now, draftVars, clipboard>>

\* StepPage navigates: <Navigate to={STEPS[0].route} replace /> for a slug of
\* no step, navigate(fallback.route, { replace: true }) from the redirect effect
RedirectStep ==
    /\ PageOf(location.pathname) = "StepPage"
    /\ redirects < MaxRedirects
    /\ \E target \in {stepPageTarget(location.pathname, artifacts)} :
       \E form \in {FormAt(target, artifacts)} :
           /\ target # location.pathname
           /\ location' = [pathname |-> target, state |-> Null]
           /\ redirects' = redirects + 1
           /\ notes' = form.notes
           /\ status' = form.status
           /\ screenshotName' = form.screenshotName
    /\ UNCHANGED <<sessionVars, storage, artifacts, now, draftVars, proofVars>>

\* ProofPage navigates to the first incomplete step, where StepPage is mounted
\* and reads the artifacts
RedirectProof ==
    /\ PageOf(location.pathname) = "ProofPage"
    /\ redirects < MaxRedirects
    /\ \E firstIncomplete \in {getFirstIncompleteStep(artifacts)} :
       \E stored \in {getInitialArtifacts(storage)} :
           /\ firstIncomplete # 0
           /\ \E form \in {FormAt(STEPS[firstIncomplete].route, stored)} :
                  /\ notes' = form.notes
                  /\ status' = form.status
                  /\ screenshotName' = form.screenshotName
           /\ location' = [pathname |-> STEPS[firstIncomplete].route,
                           state    |-> [from |-> location.pathname]]
           /\ redirects' = redirects + 1
           /\ artifacts' = stored
           /\ links' = Undefined
    /\ UNCHANGED <<sessionVars, storage, now, draftVars, clipboard>>

RedirectNext ==
    \/ \E url \in Urls : Request(url)
    \/ RedirectStep
    \/ RedirectProof

\* a page that has a redirect to make makes it: effects run after every render
SpecRedirect ==
    Init /\ [][RedirectNext]_vars /\ WF_vars(RedirectStep) /\ WF_vars(RedirectProof)

\* The resume pages, opened on a store that holds any of the drafts.
DraftInit ==
    /\ storage \in DraftStores
    /\ location = [pathname |-> HOME_ROUTE, state |-> Null]
    /\ redirects = 0
    /\ artifacts = [n \in StepNumbers |-> Null]
    /\ notes = EmptyString
    /\ status = EmptyString
    /\ screenshotName = EmptyString
    /\ now = 0
    /\ draft = Undefined
    /\ uuid = 0
    /\ template = Undefined
    /\ edits = 0
    /\ links = Undefined
    /\ clipboard = Undefined
    /\ suggesting = "idle"
    /\ draft2 = Undefined
    /\ artifacts2 = [n \in StepNumbers |-> Null]
    /\ path2 = <<>>

DraftNext ==
    \/ OpenBuilder
    \/ OpenPreview

SpecDraft == DraftInit /\ [][DraftNext]_vars

\* A session of the resume pages: the builder and the preview are opened and
\* the draft is edited.
BuilderInit ==
    /\ storage \in BuilderStores
    /\ location = [pathname |-> HOME_ROUTE, state |-> Null]
    /\ redirects = 0
    /\ artifacts = [n \in StepNumbers |-> Null]
    /\ notes = EmptyString
    /\ status = EmptyString
    /\ screenshotName = EmptyString
    /\ now = 0
    /\ draft = Undefined
    /\ uuid = 0
    /\ template = Undefined
    /\ edits = 0
    /\ links = Undefined
    /\ clipboard = Undefined
    /\ suggesting = "idle"
    /\ draft2 = Undefined
    /\ artifacts2 = [n \in StepNumbers |-> Null]
    /\ path2 = <<>>

\* the tech chips a project shows
techOf(entry) == IF "techStack" \in DOMAIN entry.o THEN entry.o.techStack.a ELSE <<>>

\* a list of the draft a mounted page holds; no item when no page holds one
listOf(key) == IF draft.t = "object" /\ key \in DOMAIN draft.o THEN draft.o[key].a ELSE <<>>

BuilderNext ==
    \/ OpenBuilder
    \/ OpenPreview
    \/ \E field \in ScalarFields : \E value \in FieldInputs(field) : setField(field, value)
    \/ \E id \in idsOf(listOf("education")) : \E field \in {"school", "degree", "year"} :
           updateEducation(id, field, <<"M">>)
    \/ \E id \in idsOf(listOf("experience")) :
       \E field \in {"company", "role", "duration", "bullet"} :
           updateExperience(id, field, <<"4", "0", "%">>)
    \/ \E id \in idsOf(listOf("projects")) :
       \E field \in {"title", "description", "liveUrl", "githubUrl"} :
           updateProject(id, field, <<"P">>)
    \/ \E category \in SkillCategories : \E rawValue \in ChipInputs :
           addSkillChip(category, rawValue)
    \/ \E category \in SkillCategories : \E i \in 1..Len(listOf(category)) :
           removeSkillChip(category, listOf(category)[i].s)
    \/ \E id \in idsOf(listOf("projects")) : addProjectTechChip(id, <<"G", "o", " ">>)
    \/ \E i \in 1..Len(listOf("projects")) : \E k \in 1..Len(techOf(listOf("projects")[i])) :
           removeProjectTechChip(listOf("projects")[i].o.id, techOf(listOf("projects")[i])[k].s)
    \/ \E option \in {TEMPLATE_OPTIONS[i] : i \in 1..Len(TEMPLATE_OPTIONS)} : setTemplate(option)
    \/ handleCopyText

SpecBuilder == BuilderInit /\ [][BuilderNext]_vars

\* The same session in the snapshot App.tsx.
AppNext ==
    \/ OpenBuilder_App
    \/ OpenPreview_App
    \/ \E field \in ScalarFields \cup {"skills"} : \E value \in FieldInputs_App(field) :
           setField_App(field, value)
    \/ \E id \in idsOf(listOf("education")) : \E field \in {"school", "degree", "year"} :
           updateEducation_App(id, field, <<"M">>)
    \/ \E id \in idsOf(listOf("experience")) :
       \E field \in {"company", "role", "duration", "bullet"} :
           updateExperience_App(id, field, <<"4", "0", "%">>)
    \/ \E id \in idsOf(listOf("projects")) : \E field \in {"title", "description"} :
           updateProject_App(id, field, <<"P">>)
    \/ addProject_App
    \/ \E option \in {TEMPLATE_OPTIONS[i] : i \in 1..Len(TEMPLATE_OPTIONS)} :
           setTemplate_App(option)
    \/ handleCopyText_App

SpecApp == BuilderInit /\ [][AppNext]_vars

\* Both snapshots on one store: a page of either is opened and used, as when
\* one snapshot of the application replaces the other on the same origin.
ResumeNext == BuilderNext \/ AppNext

SpecResume == BuilderInit /\ [][ResumeNext]_vars

\* the effect of BuilderPage on [draft]:
\* localStorage.setItem(RESUME_STORAGE_KEY, JSON.stringify(draft))
persistMerged(store, d) ==
    setItem(store, RESUME_STORAGE_KEY,
            JSONstringify(Obj([d.o EXCEPT !.phone = readResumeDraft(store, 0).draft.o.phone])))

persistDraft(store, d) == setItem(store, RESUME_STORAGE_KEY, JSONstringify(d))

\* BuilderPage mounted in a second tab on the same store: it reads the draft
\* and its effects write the draft, the template and the accent
OpenBuilder2 ==
    \E read \in {readResumeDraft(storage, uuid)} :
        /\ draft2 = Undefined
    /\ artifacts2 = [n \in StepNumbers |-> Null]
    /\ path2 = <<>>
        /\ read.n <= MaxUuid
        /\ ~Throws(read.draft)
        /\ uuid' = read.n
        /\ draft2' = read.draft
        /\ storage' = persistDraft(setItem(setItem(storage, TEMPLATE_STORAGE_KEY,
                                                   <<readTemplateChoice(storage)>>),
                                           ACCENT_STORAGE_KEY, <<readAccentChoice(storage)>>),
                                   read.draft)
        /\ UNCHANGED <<suggesting, artifacts2, path2, draft, location, template, edits,
                       trackVars, proofVars>>

\* setDraft(next) in the second tab, and the effect it triggers
setDraft2(next) ==
    /\ draft2.t = "object"
    /\ edits < MaxEdits
    /\ edits' = edits + 1
    /\ draft2' = next
    /\ storage' = persistDraft(storage, next)
    /\ UNCHANGED <<suggesting, artifacts2, path2, draft, location, uuid, template,
                   trackVars, proofVars>>

\* onChange of a scalar input of the second tab
setField2(field, value) == setDraft2(Obj([draft2.o EXCEPT ![field] = Str(value)]))

\* updateProject(id, field, value) in the second tab
updateProject2(id, field, value) ==
    setDraft2(Obj([draft2.o EXCEPT
        !.projects = Arr(updateEntries(draft2.o.projects.a, id, field, Str(value)))]))

\* CleanPreviewPage: reloadDraft = () => setDraft(readResumeDraft()), on a
\* storage event of the key of the draft, on focus and on visibilitychange
reloadDraft ==
    \E read \in {readResumeDraft(storage, uuid)} :
        /\ Mounted("CleanPreviewPage")
        /\ read.n <= MaxUuid
        /\ ~Throws(read.draft)
        /\ uuid' = read.n
        /\ draft' = read.draft
        /\ UNCHANGED <<sessionVars, storage, location, template, edits, trackVars, proofVars>>

\* An editing session of the builder with all of its operations on entries:
\* the page is opened, entries are added, edited and deleted, the sample data
\* is loaded and skills are suggested. The page is not reloaded while a
\* suggestion is under way, and between the timer and the render only a
\* scalar input is changed.
EditInit ==
    /\ storage \in EditStores
    /\ location = [pathname |-> HOME_ROUTE, state |-> Null]
    /\ redirects = 0
    /\ artifacts = [n \in StepNumbers |-> Null]
    /\ notes = EmptyString
    /\ status = EmptyString
    /\ screenshotName = EmptyString
    /\ now = 0
    /\ draft = Undefined
    /\ uuid = 0
    /\ template = Undefined
    /\ edits = 0
    /\ links = Undefined
    /\ clipboard = Undefined
    /\ suggesting = "idle"
    /\ draft2 = Undefined
    /\ artifacts2 = [n \in StepNumbers |-> Null]
    /\ path2 = <<>>

\* The session of App.tsx on the stores of an editing session.
SpecEditApp == EditInit /\ [][AppNext]_vars

\* Two tabs on one store: the first shows the builder or the preview, the
\* second the builder; each edits its own draft and writes it, in any order.
TabsNext ==
    \/ OpenBuilder
    \/ OpenPreview
    \/ \E field \in {"name", "phone"} : setField(field, <<"x">>)
    \/ \E id \in idsOf(listOf("projects")) : updateProject(id, "title", <<"P">>)
    \/ reloadDraft
    \/ OpenBuilder2
    \/ \E field \in {"name", "phone"} : setField2(field, <<"y">>)
    \/ \E id \in idsOf(IF draft2.t = "object" THEN draft2.o.projects.a ELSE <<>>) :
           updateProject2(id, "title", <<"Q">>)

SpecTabs == EditInit /\ [][TabsNext]_vars

\* no updater waits for a render: the handlers see the draft they change
Rendered == suggesting # "queued"

EditNext ==
    \/ suggesting = "idle" /\ OpenBuilder
    \/ Rendered /\ \E field \in {"name", "phone"} : setField(field, <<"x">>)
    \/ Rendered /\ \E id \in idsOf(listOf("education")) : updateEducation(id, "school", <<"M">>)
    \/ Rendered /\ \E id \in idsOf(listOf("experience")) :
                       updateExperience(id, "bullet", <<"4", "0", "%">>)
    \/ Rendered /\ \E id \in idsOf(listOf("projects")) : updateProject(id, "title", <<"P">>)
    \/ Rendered /\ addSkillChip("toolsTechnologies", <<"g", "i", "t">>)
    \/ Rendered /\ addEducation
    \/ Rendered /\ addExperience
    \/ Rendered /\ addProject
    \/ Rendered /\ \E id \in idsOf(listOf("projects")) : deleteProject(id)
    \/ Rendered /\ loadSampleData
    \/ suggestSkills
    \/ suggestTimeout
    \/ renderSuggestion
    \/ \E field \in {"name", "phone"} : setFieldBeforeRender(field, <<"x">>)

SpecEdit == EditInit /\ [][EditNext]_vars

\* The proof page: it is opened on a store, the links are edited and the
\* submission is copied.
ProofInit ==
    /\ storage \in ProofStores
    /\ location = [pathname |-> HOME_ROUTE, state |-> Null]
    /\ redirects = 0
    /\ artifacts = [n \in StepNumbers |-> Null]
    /\ notes = EmptyString
    /\ status = EmptyString
    /\ screenshotName = EmptyString
    /\ now = 0
    /\ draft = Undefined
    /\ uuid = 0
    /\ template = Undefined
    /\ edits = 0
    /\ links = Undefined
    /\ clipboard = Undefined
    /\ suggesting = "idle"
    /\ draft2 = Undefined
    /\ artifacts2 = [n \in StepNumbers |-> Null]
    /\ path2 = <<>>

ProofNext ==
    \/ \E stored \in {getInitialArtifacts(storage)} : OpenUrl(PROOF_ROUTE, stored)
    \/ \E field \in {"lovable", "github", "deploy"} : \E value \in LinkInputs :
           handleLinkChange(field, value)
    \/ handleCopySubmission

SpecProof == ProofInit /\ [][ProofNext]_vars

-----------------------------------------------------------------------------
(* The build track: what is stated about it *)

\* A record read from the store is a committed artifact: an object that
\* carries a non-empty timestamp.
Committed(record) ==
    /\ record.t = "object"
    /\ "uploadedAt" \in DOMAIN record.o
    /\ record.o.uploadedAt.t = "string"
    /\ record.o.uploadedAt.s # <<>>

\* Step n has a committed artifact in a store.
HasCommit(store, n) == Committed(parseJson(getItem(store, getArtifactKey(n))))

\* The lowest step from n on whose record is no committed artifact; 0 when none.
RECURSIVE FirstLackingFrom(_, _)
FirstLackingFrom(records, n) ==
    IF n > Len(STEPS) THEN 0
    ELSE IF ~Committed(records[n]) THEN n
    ELSE FirstLackingFrom(records, n + 1)

\* f among the records of the steps: the first incomplete step, 0 when every
\* step is complete
FirstLackingIn(records) == FirstLackingFrom(records, 1)

\* f: the first incomplete step of a store
FirstLacking(store) ==
    FirstLackingIn([n \in StepNumbers |-> parseJson(getItem(store, getArtifactKey(n)))])

\* f as a position in the order of the steps, "none" coming after the last step
Frontier(store) ==
    LET f == FirstLacking(store) IN IF f = 0 THEN Len(STEPS) + 1 ELSE f

\* all three fields of the commit form are empty, the notes after trimming
FormEmpty ==
    /\ Trim(notes.s) = <<>>
    /\ status.s = <<>>
    /\ screenshotName.s = <<>>

\* the record the store holds for step n, as the application reads it
StoredRecord(n) == parseJson(getItem(storage, getArtifactKey(n)))

\* C1: whatever has been committed, the steps StepPage shows as unlocked are
\* exactly 1..f, f the lowest step without a committed artifact (all of them
\* when no step lacks one); the active step is at most f unless all steps are
\* complete, and a request for step k stays at step k iff k <= f or all steps
\* are complete.
C1_UnlockedIsPrefix ==
    CurrentStep # 0 =>
        LET f == FirstLacking(storage)
        IN  /\ {i \in 1..Len(STEPS) : unlocked(artifacts, i)}
                 = 1..(IF f = 0 THEN Len(STEPS) ELSE f)
            /\ (f = 0 \/ STEPS[CurrentStep].number <= f)
            /\ \A k \in 1..Len(STEPS) :
                 (settleStepPage(STEPS[k].route, artifacts, 0).pathname = STEPS[k].route)
                    <=> (f = 0 \/ k <= f)

\* C1's case: step 2 has just been committed on top of step 1, the third step
\* is the first incomplete one and step 2 is still the active step.
C1_Witness ==
    /\ now = 1
    /\ CurrentStep = 2
    /\ FirstLacking(storage) = 3
    /\ StoredRecord(2) = newArtifact(notes, status, screenshotName, 1)

\* C2: whenever a step k beyond the first incomplete step f is requested, the
\* active step the request resolves to is f.
C2_RequestBeyondFrontier ==
    [][\A stored \in {getInitialArtifacts(storage)} :
       \A f \in {FirstLackingIn(stored)} :
       \A k \in 1..Len(STEPS) :
          ( /\ f # 0
            /\ k > f
            /\ OpenUrl(STEPS[k].route, stored) )
          => /\ location'.pathname = STEPS[f].route
             /\ CurrentStep' = f
             /\ redirects' = 1 ]_vars

\* C2's case: step 1 is committed and step 2 is not, a step beyond step 2 was
\* requested and the request was redirected once, to step 2.
C2_Witness ==
    /\ HasCommit(storage, 1)
    /\ ~HasCommit(storage, 2)
    /\ redirects = 1
    /\ location = [pathname |-> STEPS[2].route, state |-> Null]

\* C3: the proof page is shown only when every step has a committed artifact;
\* entering it while a step is incomplete shows nothing of it and leads to the
\* first incomplete step.
C3_ProofPageGated ==
    [][ /\ PageOf(location'.pathname) = "ProofPage" => FirstLacking(storage') = 0
        /\ \A stored \in {getInitialArtifacts(storage)} :
           \A f \in {FirstLackingIn(stored)} :
             ( /\ f # 0
               /\ OpenUrl(PROOF_ROUTE, stored) )
             => /\ location'.pathname = STEPS[f].route
                /\ location'.state = [from |-> PROOF_ROUTE]
                /\ CurrentStep' = f ]_vars

\* C3's case: the proof page was entered with step 2 incomplete (a later step
\* holding a committed artifact) and the user was led to step 2.
C3_Witness ==
    /\ location = [pathname |-> STEPS[2].route, state |-> [from |-> PROOF_ROUTE]]
    /\ FirstLacking(storage) = 2
    /\ HasCommit(storage, 3)

\* C4: a commit on step s leaves as the record of s, in the store and in the
\* artifact map alike, exactly the form's notes, outcome and attachment name
\* with the timestamp of the commit, a timestamp no earlier record of s has;
\* s is complete afterwards.
C4_CommitReplacesRecord ==
    [][handleUploadArtifact =>
          \A s \in {STEPS[CurrentStep].number} :
          \A record \in {parseJson(getItem(storage', getArtifactKey(s)))} :
             /\ record = Obj([ notes          |-> notes,
                               status         |-> status,
                               screenshotName |-> screenshotName,
                               uploadedAt     |-> Str(toISOString(now')) ])
             /\ artifacts'[s] = record
             /\ Get(StoredRecord(s), "uploadedAt") # record.o.uploadedAt
             /\ HasCommit(storage', s)
             /\ isSaved(artifacts', CurrentStep) ]_vars

\* C4's case: step 1, which an earlier visit had committed with other notes,
\* another outcome and another attachment, has been committed again.
C4_Witness ==
    /\ now = 1
    /\ CurrentStep = 1
    /\ HasCommit(storage, 2)
    /\ StoredRecord(1) = Obj([ notes          |-> Str(<<"n">>),
                               status         |-> Str(<<"worked">>),
                               screenshotName |-> Str(<<"s.png">>),
                               uploadedAt     |-> Str(toISOString(1)) ])
    /\ artifacts[1] = StoredRecord(1)

\* C5: a commit on step k changes the record of k alone: the text, the
\* in-memory artifact and the completion of every other step stay as they
\* were, and the first incomplete step never moves back.
C5_CommitFrame ==
    [][ /\ storage' # storage => Frontier(storage') >= Frontier(storage)
        /\ handleUploadArtifact =>
             \A k \in {STEPS[CurrentStep].number} :
                /\ DOMAIN storage' = DOMAIN storage \cup {getArtifactKey(k)}
                /\ \A n \in StepNumbers \ {k} :
                      /\ getItem(storage', getArtifactKey(n)) = getItem(storage, getArtifactKey(n))
                      /\ artifacts'[n] = artifacts[n]
                      /\ HasCommit(storage', n) <=> HasCommit(storage, n) ]_vars

\* C5's case: with steps 1 to 7 complete, step 2 has been committed again and
\* step 8 is still the first incomplete one.
C5_Witness ==
    /\ now = 1
    /\ Get(StoredRecord(2), "uploadedAt") = Str(toISOString(1))
    /\ Get(StoredRecord(3), "uploadedAt") = Str(toISOString(0))
    /\ FirstLacking(storage) = Len(STEPS)

\* C6: the commit button is disabled exactly when the notes (trimmed), the
\* outcome and the attachment name are all empty; in that case no step taken
\* writes an artifact, and a commit is taken only from a form that is not empty.
C6_CommitNeedsContent ==
    [][CurrentStep # 0 =>
          /\ uploadDisabled(notes, status, screenshotName) <=> FormEmpty
          /\ FormEmpty => /\ storage' = storage
                          /\ artifacts' = artifacts
                          /\ now' = now
          /\ (now < MaxClock) => ((ENABLED handleUploadArtifact) <=> ~FormEmpty) ]_vars

\* C6's case: the form holds nothing but blank notes.
C6_Witness ==
    /\ CurrentStep # 0
    /\ notes = Str(<<" ">>)
    /\ status = EmptyString
    /\ screenshotName = EmptyString
    /\ now < MaxClock

\* C7: a step whose stored record has no timestamp, or an empty one, is
\* incomplete whatever its other fields hold: the first incomplete step is at
\* or before it, no later step is unlocked and none is the active step.
C7_NoTimestampIsIncomplete ==
    \A n \in StepNumbers :
        LET record == StoredRecord(n)
        IN  ( /\ record.t = "object"
              /\ \/ "uploadedAt" \notin DOMAIN record.o
                 \/ record.o.uploadedAt = EmptyString )
            => LET stored == getInitialArtifacts(storage)
                   f      == getFirstIncompleteStep(stored)
               IN  /\ f # 0
                   /\ f <= n
                   /\ \A i \in 1..Len(STEPS) : STEPS[i].number > n => ~unlocked(stored, i)
                   /\ CurrentStep # 0 =>
                        /\ STEPS[CurrentStep].number <= n
                        /\ ~isSaved(artifacts, n)
                        /\ \A i \in 1..Len(STEPS) :
                             STEPS[i].number > n => ~unlocked(artifacts, i)

\* C7's case: step 2 holds notes, an outcome and an attachment name but no
\* timestamp, steps 1 and 3 are committed, and a request for a later step has
\* been sent back to step 2.
C7_Witness ==
    /\ StoredRecord(2).t = "object"
    /\ DOMAIN StoredRecord(2).o = {"notes", "status", "screenshotName"}
    /\ HasCommit(storage, 1)
    /\ HasCommit(storage, 3)
    /\ redirects = 1
    /\ CurrentStep = 2

-----------------------------------------------------------------------------
(* The resume draft: what is stated about it *)

IsString(v) == v.t = "string"

IsStringList(v) ==
    /\ v.t = "array"
    /\ \A i \in 1..Len(v.a) : IsString(v.a[i])

\* a non-empty list of entries with exactly the string fields `fields`, and
\* the string lists `lists`
IsEntryList(v, fields, lists) ==
    /\ v.t = "array"
    /\ Len(v.a) >= 1
    /\ \A i \in 1..Len(v.a) :
          /\ v.a[i].t = "object"
          /\ DOMAIN v.a[i].o = fields \cup lists
          /\ \A key \in fields : IsString(v.a[i].o[key])
          /\ \A key \in lists : IsStringList(v.a[i].o[key])

\* a structurally valid draft
ValidDraft(d) ==
    /\ d.t = "object"
    /\ DOMAIN d.o = { "name", "email", "phone", "location", "summary", "education",
                      "experience", "projects", "technicalSkills", "softSkills",
                      "toolsTechnologies", "github", "linkedin" }
    /\ \A key \in {"name", "email", "phone", "location", "summary", "github", "linkedin"} :
          IsString(d.o[key])
    /\ IsEntryList(d.o.education, {"id", "school", "degree", "year"}, {})
    /\ IsEntryList(d.o.experience, {"id", "company", "role", "duration", "bullet"}, {})
    /\ IsEntryList(d.o.projects, {"id", "title", "description", "liveUrl", "githubUrl"},
                   {"techStack"})
    /\ \A key \in {"technicalSkills", "softSkills", "toolsTechnologies"} :
          IsStringList(d.o[key])

\* the persisted draft as the application reads it
StoredDraft == parseJson(getItem(storage, RESUME_STORAGE_KEY))

\* C8: whatever is persisted, a page that reads the draft gets one, without a
\* failure: every scalar field a string, education, experience and projects
\* non-empty lists of entries with string fields only (and a list of strings
\* as tech stack), the three skill fields lists of strings.
C8_NormalizerTotal ==
    draft # Undefined => ValidDraft(draft)

\* C8's case: the preview page has read a draft whose education list starts
\* with null; the store still holds that list.
C8_Witness ==
    /\ location.pathname = PREVIEW_ROUTE
    /\ draft # Undefined
    /\ Get(StoredDraft, "education").t = "array"
    /\ Len(Get(StoredDraft, "education").a) = MaxItems
    /\ Get(StoredDraft, "education").a[1] = Null

\* C9: the draft a page has read is what reading its JSON serialization gives
\* again, the entries in the same order with the same ids, no new id drawn.
C9_NormalizeRoundTrip ==
    draft # Undefined =>
        LET again == readResumeDraft(
                         setItem(storage, RESUME_STORAGE_KEY, JSONstringify(draft)), uuid)
        IN  /\ again.draft = draft
            /\ again.n = uuid

\* C9's case: the builder has read a draft with an entry that had no id and
\* with skills in the legacy field only, and has written it back.
C9_Witness ==
    /\ location.pathname = BUILDER_ROUTE
    /\ draft.t = "object"
    /\ StoredDraft = draft
    /\ \/ \E i \in 1..Len(draft.o.education.a) : draft.o.education.a[i].o.id = randomUUID(0)
       \/ /\ draft.o.technicalSkills.a = <<Str(<<"C">>), Str(<<"J", "S">>)>>
          /\ uuid = 3

\* C10: the legacy field `skills` contributes to the draft read only when the
\* three canonical fields are all empty; when any of them holds a skill, the
\* draft's skills are the canonical ones and no legacy item is among them.
C10_LegacyOnlyFillsGap ==
    [][(OpenBuilder \/ OpenPreview) =>
          \A raw \in {StoredDraft} :
             (Truthy(raw) /\ raw.t = "object") =>
                LET technical == parseSkillArray(Get(raw, "technicalSkills"))
                    soft      == parseSkillArray(Get(raw, "softSkills"))
                    tools     == parseSkillArray(Get(raw, "toolsTechnologies"))
                    legacy    == legacySkillsOf(raw)
                IN  /\ draft'.o.softSkills.a = soft
                    /\ draft'.o.toolsTechnologies.a = tools
                    /\ draft'.o.technicalSkills.a =
                          IF Len(technical) = 0 /\ Len(soft) = 0 /\ Len(tools) = 0
                          THEN legacy ELSE technical ]_vars

-----------------------------------------------------------------------------
(* The resume pages: what is stated about them *)

\* the result the scorer of the page's snapshot computes for a draft
atsOf(d) == IF IsAppDraft(d) THEN computeAtsResult_App(d) ELSE computeAtsResult(d)

\* C11: for every draft a resume page holds, in either snapshot, the score the
\* scorer computes is an integer between 0 and 100, both included.
C11_ScoreInRange ==
    draft.t = "object" => atsOf(draft).score \in 0..100

\* C11's case: after edits a page holds a draft that reaches the upper end of
\* the range.
C11_Witness ==
    /\ draft.t = "object"
    /\ edits > 0
    /\ atsOf(draft).score = 100

\* the sum of the weights of a sequence of checks
RECURSIVE SumPoints(_)
SumPoints(checks) == IF checks = <<>> THEN 0 ELSE Head(checks).points + SumPoints(Tail(checks))

\* the checks of the checklist a draft fails, in checklist order
FailedChecks(d) == SelectSeq(atsChecks(d), LAMBDA check : ~check.ok)

\* C12: for every draft the builder or the preview holds, the scorer returns
\* one suggestion for each predicate of the checklist that fails, in checklist
\* order, and 100 minus the score is the sum of the weights of the failed
\* predicates.
C12_SuggestionsAreFailedChecks ==
    (draft.t = "object" /\ ~IsAppDraft(draft)) =>
        LET result == computeAtsResult(draft)
            failed == FailedChecks(draft)
        IN  /\ Len(result.suggestions) = Len(failed)
            /\ result.suggestions = [i \in 1..Len(failed) |-> failed[i].suggestion]
            /\ 100 - result.score = SumPoints(failed)

\* C12's case: an edited draft passes some predicates and fails several
\* others, among them two that do not follow each other in the checklist.
C12_Witness ==
    /\ draft.t = "object" /\ ~IsAppDraft(draft)
    /\ edits > 0
    /\ atsChecks(draft)[1].ok
    /\ ~atsChecks(draft)[3].ok
    /\ atsChecks(draft)[6].ok
    /\ ~atsChecks(draft)[8].ok
    /\ Len(FailedChecks(draft)) >= 3

\* the scalar fields a predicate of the checklist reads
QualifyingFields == {"name", "email", "summary", "phone", "linkedin", "github"}

\* the suggestion of the predicate that asks for a scalar field to be present
SuggestionOf(field) ==
    CASE field = "name"     -> "Add your full name (+10 points)."
      [] field = "email"    -> "Add an email address (+10 points)."
      [] field = "summary"  -> "Add a professional summary (+10 points)."
      [] field = "phone"    -> "Add your phone number (+5 points)."
      [] field = "linkedin" -> "Add your LinkedIn URL (+5 points)."
      [] field = "github"   -> "Add your GitHub URL (+5 points)."

\* a sequence without the members of a set
Without(seq, removed) == SelectSeq(seq, LAMBDA item : item \notin removed)

\* the builder fills a scalar field that was blank with a value that is not
Fills(field, value) ==
    /\ Mounted("BuilderPage")
    /\ Trim(draft.o[field].s) = <<>>
    /\ Trim(value) # <<>>
    /\ setField(field, value)

\* the value makes the predicate that asks for the field hold
Qualifies(field, value) ==
    IF field = "summary" THEN Len(Trim(value)) > 50 ELSE Trim(value) # <<>>

\* C13 as stated: filling one qualifying field that was missing never
\* decreases the score, and the suggestions become the previous list with
\* exactly the one suggestion of that field removed.
C13_FillRemovesExactlyOne ==
    [][\A field \in QualifyingFields : \A value \in FieldInputs(field) :
          (Fills(field, value) /\ Qualifies(field, value)) =>
              /\ computeAtsResult(draft').score >= computeAtsResult(draft).score
              /\ computeAtsResult(draft').suggestions =
                     Without(computeAtsResult(draft).suggestions, {SuggestionOf(field)})
              /\ Len(computeAtsResult(draft').suggestions) =
                     Len(computeAtsResult(draft).suggestions) - 1 ]_vars

\* the suggestions a value of a scalar field takes off the list
RemovedBy(field, value) ==
    IF field = "summary"
    THEN (IF Len(Trim(value)) > 50 THEN {"Add a professional summary (+10 points)."} ELSE {})
         \cup (IF summaryHasActionVerb(Trim(value))
               THEN {"Use action verbs in summary (+10 points)."} ELSE {})
    ELSE {SuggestionOf(field)}

\* C13, amended: filling one of the scalar fields name, email, phone, LinkedIn,
\* GitHub or summary that was blank never decreases the score, and the
\* suggestions become the previous list, order kept, without the suggestions
\* of the predicates the new value satisfies: exactly one for the five
\* presence fields; for the summary the length suggestion when the trimmed
\* value is longer than 50 characters and the action verb suggestion when it
\* holds an action verb, so none, one or both.
C13_FillRemovesSatisfied ==
    [][\A field \in QualifyingFields : \A value \in FieldInputs(field) :
          Fills(field, value) =>
              /\ computeAtsResult(draft').score >= computeAtsResult(draft).score
              /\ computeAtsResult(draft').suggestions =
                     Without(computeAtsResult(draft).suggestions, RemovedBy(field, value))
              /\ Len(computeAtsResult(draft').suggestions) =
                     Len(computeAtsResult(draft).suggestions) - Cardinality(RemovedBy(field, value)) ]_vars

\* C13's case: the builder held a draft with a blank summary and the summary
\* has been filled with 60 words that start with Built, which satisfies both
\* predicates on the summary.
C13_Witness ==
    /\ location.pathname = BUILDER_ROUTE
    /\ edits = 1
    /\ draft = Obj([AlmostFullDraft EXCEPT !.summary = Str(SummaryBuilt60)])
    /\ Len(computeAtsResult(draft).suggestions) =
           Len(computeAtsResult(Obj(AlmostFullDraft)).suggestions) - 2

\* every field of an entry but its id is blank
BlankEntry(entry) ==
    \A key \in DOMAIN entry.o \ {"id"} :
        IF entry.o[key].t = "array" THEN entry.o[key].a = <<>> ELSE entry.o[key].s = <<>>

\* an entirely blank draft: all scalars empty, one blank entry per list, no skills
IsBlank(d) ==
    /\ d.t = "object" /\ ~IsAppDraft(d)
    /\ \A field \in ScalarFields : d.o[field].s = <<>>
    /\ \A key \in {"education", "experience", "projects"} :
           Len(d.o[key].a) = 1 /\ BlankEntry(d.o[key].a[1])
    /\ skillItems(d) = <<>>

\* C14 as stated: an entirely blank draft scores 0 and yields exactly 10
\* suggestions.
C14_BlankYieldsTen ==
    IsBlank(draft) =>
        /\ computeAtsResult(draft).score = 0
        /\ Len(computeAtsResult(draft).suggestions) = 10

\* the suggestions of the checklist, one per predicate, in its order
AllSuggestions ==
    << "Add your full name (+10 points).",
       "Add an email address (+10 points).",
       "Add a professional summary (+10 points).",
       "Add an experience entry with bullet impact (+15 points).",
       "Add at least one education entry (+10 points).",
       "Add at least 5 skills (+10 points).",
       "Add at least one project (+10 points).",
       "Add your phone number (+5 points).",
       "Add your LinkedIn URL (+5 points).",
       "Add your GitHub URL (+5 points).",
       "Use action verbs in summary (+10 points)." >>

\* C14, amended: an entirely blank draft scores 0 and yields exactly 11
\* suggestions, one per predicate of the checklist, in the fixed checklist
\* order.
C14_BlankYieldsEleven ==
    IsBlank(draft) =>
        /\ computeAtsResult(draft).score = 0
        /\ Len(computeAtsResult(draft).suggestions) = 11
        /\ computeAtsResult(draft).suggestions = AllSuggestions

\* C14's case: the builder holds an entirely blank draft, read from a store
\* without one or emptied again by an edit.
C14_Witness ==
    /\ Mounted("BuilderPage")
    /\ IsBlank(draft)

\* the scenario's draft: name Ada Lovelace, email ada@x.io, a summary of 60
\* words that starts with Built, one experience entry with the bullet
\* "Improved throughput by 40%", one education entry, 6 skills, one project,
\* and phone, LinkedIn and GitHub filled
IsFullScenario(d) ==
    /\ d.t = "object" /\ ~IsAppDraft(d)
    /\ d.o.name.s = <<"A", "d", "a", " ", "L", "o", "v", "e", "l", "a", "c", "e">>
    /\ d.o.email.s = <<"a", "d", "a", "@", "x", ".", "i", "o">>
    /\ d.o.summary.s = SummaryBuilt60
    /\ Len(nonEmptyExperience(d)) = 1
    /\ nonEmptyExperience(d)[1].o.bullet.s =
           <<"I", "m", "p", "r", "o", "v", "e", "d", " ", "t", "h", "r", "o", "u", "g", "h", "p", "u", "t", " ", "b", "y", " ", "4", "0", "%">>
    /\ Len(nonEmptyEducation(d)) = 1
    /\ Len(d.o.technicalSkills.a) + Len(d.o.softSkills.a) + Len(d.o.toolsTechnologies.a) = 6
    /\ Len(nonEmptyProjects(d)) = 1
    /\ Trim(d.o.phone.s) # <<>>
    /\ Trim(d.o.linkedin.s) # <<>>
    /\ Trim(d.o.github.s) # <<>>

\* C15: the draft of the scenario scores 100 and has no suggestion.
C15_FullScenarioScores100 ==
    IsFullScenario(draft) =>
        /\ computeAtsResult(draft).score = 100
        /\ computeAtsResult(draft).suggestions = <<>>

\* C15's case: the builder has been given the phone number and the summary
\* that the stored draft lacked, and holds the draft of the scenario.
C15_Witness ==
    /\ Mounted("BuilderPage")
    /\ edits = 2
    /\ IsFullScenario(draft)
    /\ countWords(draft.o.summary.s) = 60

\* the top improvements the page's snapshot shows for a draft
topImprovementsOf(d) ==
    IF IsAppDraft(d) THEN computeTopImprovements_App(d) ELSE computeTopImprovements(d)

\* the full suggestion list of the scorer of the page's snapshot: every
\* suggestion its chain pushes
fullSuggestionsOf(d) ==
    IF IsAppDraft(d) THEN runChecks(atsChecks_App(d), 0, <<>>).suggestions
    ELSE runChecks(atsChecks(d), 0, <<>>).suggestions

\* C16: for every draft a resume page holds, the top improvements are the
\* first three entries of the scorer's full suggestion list for that draft, in
\* checklist order.
C16_TopIsFirstThree ==
    draft.t = "object" => topImprovementsOf(draft) = SliceTo(fullSuggestionsOf(draft), 3)

\* the export the page's snapshot copies for a draft
exportOf(d) == IF IsAppDraft(d) THEN toPlainTextResume_App(d) ELSE toPlainTextResume(d)

\* the positions of the line feeds of a text
FeedsOf(text) == {i \in 1..Len(text) : text[i] = "\n"}

\* a set of positions in ascending order
Ascending(positions) ==
    [k \in 1..Cardinality(positions) |->
        CHOOSE p \in positions : Cardinality({q \in positions : q < p}) = k - 1]

\* the lines of a text whose line feeds stand at the positions `feeds`
LinesAt(text, feeds) ==
    [k \in 1..(Len(feeds) + 1) |->
        SubSeq(text, (IF k = 1 THEN 0 ELSE feeds[k - 1]) + 1,
                     (IF k > Len(feeds) THEN Len(text) + 1 ELSE feeds[k]) - 1)]

\* the sections of an export: the runs of lines between empty lines, each a
\* heading followed by its content
RECURSIVE SectionsFrom(_, _)
SectionsFrom(lines, section) ==
    IF lines = <<>> THEN (IF section = <<>> THEN <<>> ELSE <<section>>)
    ELSE IF Head(lines) = <<>>
         THEN (IF section = <<>> THEN <<>> ELSE <<section>>) \o SectionsFrom(Tail(lines), <<>>)
         ELSE SectionsFrom(Tail(lines), Append(section, Head(lines)))

\* the headings of sections, in their order
HeadingsOf(sections) == [i \in 1..Len(sections) |-> sections[i][1]]

\* the six optional sections in their order, each with whether the draft has
\* content for it after the filters for empty content
OptionalSections(d) ==
    << [heading |-> <<"S", "u", "m", "m", "a", "r", "y">>,
        present |-> Trim(d.o.summary.s) # <<>>],
       [heading |-> <<"E", "d", "u", "c", "a", "t", "i", "o", "n">>,
        present |-> nonEmptyEducation(d) # <<>>],
       [heading |-> <<"E", "x", "p", "e", "r", "i", "e", "n", "c", "e">>,
        present |-> nonEmptyExperience(d) # <<>>],
       [heading |-> <<"P", "r", "o", "j", "e", "c", "t", "s">>,
        present |-> IF IsAppDraft(d) THEN nonEmptyProjects_App(d) # <<>>
                    ELSE nonEmptyProjects(d) # <<>>],
       [heading |-> <<"S", "k", "i", "l", "l", "s">>,
        present |-> IF IsAppDraft(d) THEN skillItems_App(d) # <<>> ELSE skillItems(d) # <<>>],
       [heading |-> <<"L", "i", "n", "k", "s">>,
        present |-> Trim(d.o.github.s) # <<>> \/ Trim(d.o.linkedin.s) # <<>>] >>

\* the headings of the optional sections a draft has content for
PresentHeadings(d) ==
    LET present == SelectSeq(OptionalSections(d), LAMBDA section : section.present)
    IN  [i \in 1..Len(present) |-> present[i].heading]

ContentOf(rendered) ==
    UNION {{rendered[i].children[k] : k \in 1..Len(rendered[i].children)} :
               i \in 1..Len(rendered)}

\* the templates a page offers
TemplateIds == {TEMPLATE_OPTIONS[i] : i \in 1..Len(TEMPLATE_OPTIONS)}

\* C18: for every draft the builder or the preview holds, the content the
\* rendered preview includes, sections and entries, is the same for each of
\* the templates Classic, Modern and Minimal; only its placement differs.
C18_TemplateKeepsContent ==
    (draft.t = "object" /\ ~IsAppDraft(draft)) =>
        \A option \in TemplateIds :
            ContentOf(ResumePreviewDocument(draft, option)) =
                ContentOf(ResumePreviewDocument(draft, "Classic"))

\* C18's case: the template Modern has been chosen for a draft with education
\* and skills, which it places in other containers and in another order than
\* Classic does.
C18_Witness ==
    /\ draft.t = "object" /\ ~IsAppDraft(draft)
    /\ template = "Modern"
    /\ edits > 0
    /\ nonEmptyEducation(draft) # <<>>
    /\ skillItems(draft) # <<>>
    /\ Len(ResumePreviewDocument(draft, template)) = 2
    /\ ResumePreviewDocument(draft, template) # ResumePreviewDocument(draft, "Classic")

-----------------------------------------------------------------------------
(* The proof page and the reads of the store: what is stated about them *)

\* the lines of the text handed to the clipboard
ClipboardLines(text) == LinesAt(text, Ascending(FeedsOf(text)))

\* the line of a step under a word for it: Complete iff the step has a
\* committed artifact
StatusLine(word, step, record) ==
    <<word, ToString(step.number), " (", step.title, "): ",
      IF Committed(record) THEN "Complete" ELSE "Pending">>

\* the three labeled link lines: a value that is empty or absent reads N/A
LinkLinesOf(lnks) ==
    [i \in 1..3 |->
        LET label == <<"Lovable", "GitHub", "Deploy">>[i]
            value == Get(lnks, <<"lovable", "github", "deploy">>[i])
        IN  <<label, ": ">> \o (IF value.t = "undefined" \/ value = EmptyString
                                THEN <<"N/A">> ELSE ToText(value))]

\* C19 as stated: the summary handed to the clipboard is exactly one line
\* "Stage <n> (<title>): Complete" or "... Pending" per stage in order,
\* followed by exactly three labeled link lines.
C19_SummaryIsStageLines ==
    [][handleCopySubmission =>
          \A lines \in {ClipboardLines(clipboard'.s)} :
              lines = [i \in 1..Len(STEPS) |->
                          StatusLine("Stage ", STEPS[i], artifacts[STEPS[i].number])]
                      \o LinkLinesOf(links) ]_vars

\* C19, amended: the summary handed to the clipboard is exactly the title
\* line "AI Resume Builder - Build Track Final Submission", then for each
\* step in order one line "Step <n> (<title>): Complete" or "Step <n>
\* (<title>): Pending" (Complete iff that step has a committed artifact), then
\* exactly the three lines "Lovable: <value>", "GitHub: <value>" and "Deploy:
\* <value>" in which an empty or absent value is replaced by N/A.
C19_SummaryIsTitleStepsLinks ==
    [][handleCopySubmission =>
          \A lines \in {ClipboardLines(clipboard'.s)} :
              lines = << <<"AI Resume Builder - Build Track Final Submission">> >>
                      \o [i \in 1..Len(STEPS) |->
                             StatusLine("Step ", STEPS[i], artifacts[STEPS[i].number])]
                      \o LinkLinesOf(links) ]_vars

\* C19's case: the submission has been copied on the proof page with one link
\* empty and another filled in.
C19_Witness ==
    /\ PageOf(location.pathname) = "ProofPage"
    /\ clipboard.t = "string"
    /\ \E i, k \in 1..(Len(clipboard.s) - 2) :
           /\ SubSeq(clipboard.s, i, i + 2) = <<"GitHub", ": ", "N/A">>
           /\ SubSeq(clipboard.s, k, k + 2) = <<"Deploy", ": ", "u">>

\* C28: whenever the proof page hands out the submission summary, each of
\* the lines of the steps in it ends in Complete, one line per step, and the
\* word Pending is nowhere in the summary.
C28_SummaryAllComplete ==
    [][handleCopySubmission =>
          \A lines \in {ClipboardLines(clipboard'.s)} :
              /\ Len(lines) >= Len(STEPS) + 1
              /\ \A i \in 1..Len(STEPS) :
                     /\ lines[i + 1][2] = ToString(STEPS[i].number)
                     /\ lines[i + 1][Len(lines[i + 1])] = "Complete"
              /\ \A k \in 1..Len(clipboard'.s) : clipboard'.s[k] # "Pending" ]_vars

\* the summary was handed out on a store in which the record of the first
\* step is a timestamp and nothing else
C28_Witness ==
    /\ PageOf(location.pathname) = "ProofPage"
    /\ clipboard.t = "string"
    /\ artifacts[1].t = "object"
    /\ DOMAIN artifacts[1].o = {"uploadedAt"}

\* a value is an object whose fields `keys` are all strings
HasStrings(value, keys) ==
    /\ value.t = "object"
    /\ \A key \in keys : key \in DOMAIN value.o /\ value.o[key].t = "string"

\* C20: whatever the store holds, what a page has read from it is defaulted
\* per field: each artifact is no artifact or a record whose notes, outcome
\* and attachment name are strings, the links are three string fields, and
\* the template is one of the three known templates.
C20_ReadsDefaultPerField ==
    /\ \A n \in StepNumbers :
           artifacts[n] = Null \/ HasStrings(artifacts[n], {"notes", "status", "screenshotName"})
    /\ links = Undefined \/ HasStrings(links, {"lovable", "github", "deploy"})
    /\ template = Undefined \/ template \in TemplateIds

-----------------------------------------------------------------------------
(* Editing sessions: what is stated about them *)

\* the three lists of entries of a draft
EntryLists == {"education", "experience", "projects"}

\* C21: after any sequence of draft operations each of the lists education,
\* experience and projects of the draft the builder holds has at least one
\* entry, and deleting the only remaining project leaves exactly one blank
\* project.
C21_ListsNeverEmpty ==
    [][/\ draft'.t = "object" => \A key \in EntryLists : Len(draft'.o[key].a) >= 1
       /\ \A id \in idsOf(listOf("projects")) :
              (Len(listOf("projects")) = 1 /\ deleteProject(id)) =>
                  /\ Len(draft'.o.projects.a) = 1
                  /\ BlankEntry(draft'.o.projects.a[1]) ]_vars

\* the entries of a list that differ between two versions of it
Changed(old, new) == {i \in 1..Len(old) : i > Len(new) \/ new[i] # old[i]}

\* the ids of a list in its order
IdOrder(entries) == [i \in 1..Len(entries) |-> entries[i].o.id]

\* an edit addressed to one id changes the entry with the id, no other entry,
\* and leaves the ids and their order as they were
EditsOne(key, id) ==
    /\ IdOrder(draft'.o[key].a) = IdOrder(draft.o[key].a)
    /\ \E i \in 1..Len(draft.o[key].a) :
           /\ draft.o[key].a[i].o.id = id
           /\ Changed(draft.o[key].a, draft'.o[key].a) \subseteq {i}

\* C22: in every draft reached by reading the store and editing, the ids of
\* each entry list are pairwise distinct, and an edit addressed to one id
\* changes that one entry and leaves the order of the list unchanged.
C22_IdsUniqueEditsOne ==
    [][/\ draft'.t = "object" =>
              \A key \in EntryLists :
                  Cardinality(idsOf(draft'.o[key].a)) = Len(draft'.o[key].a)
       /\ draft.t = "object" =>
              /\ \A id \in idsOf(listOf("education")) :
                     updateEducation_App(id, "school", <<"M">>) => EditsOne("education", id)
              /\ \A id \in idsOf(listOf("experience")) :
                     updateExperience_App(id, "bullet", <<"4", "0", "%">>) =>
                         EditsOne("experience", id)
              /\ \A id \in idsOf(listOf("projects")) :
                     updateProject_App(id, "title", <<"P">>) => EditsOne("projects", id) ]_vars

\* the text under the key of the draft
StoredDraftText ==
    IF RESUME_STORAGE_KEY \in DOMAIN storage THEN storage[RESUME_STORAGE_KEY] ELSE <<>>

\* the draft a reload of the builder would hold, in either snapshot
Reloaded ==
    IF IsAppDraft(draft) THEN readResumeDraft_App(storage, uuid).draft
    ELSE readResumeDraft(storage, uuid).draft

\* C23: while the builder holds a draft, the text under the key of the draft is
\* the JSON text of the whole draft in memory, and reading the store again
\* gives the draft in memory, field by field and entry by entry.
C23_StoreIsDraft ==
    (PageOf(location.pathname) = "BuilderPage" /\ draft.t = "object") =>
        /\ StoredDraftText = JSONstringify(draft)
        /\ Reloaded = draft

\* the first tab changed its draft in the builder
Tab1Wrote == draft' # draft /\ draft'.t = "object" /\ PageOf(location'.pathname) = "BuilderPage"

\* the second tab mounted or changed its draft
Tab2Wrote == draft2' # draft2

\* C24: with two tabs writing in any order, the text under the key of the draft
\* is at every write the JSON text of the whole draft of the tab that wrote:
\* a tab that changes its draft leaves its own draft there, and the text never
\* changes to anything but the draft of one of the two tabs.
C24_LastWriterWhole ==
    [][/\ Tab1Wrote => StoredDraftText' = JSONstringify(draft')
       /\ Tab2Wrote => StoredDraftText' = JSONstringify(draft2')
       /\ StoredDraftText' # StoredDraftText =>
              StoredDraftText' \in {JSONstringify(d) :
                                        d \in {x \in {draft', draft2'} : x.t = "object"}} ]_vars

\* the second tab has written over an edit of the first: the store holds the
\* draft of the second tab, and the draft of the first tab differs from it
C24_Witness ==
    /\ draft.t = "object"
    /\ draft2.t = "object"
    /\ PageOf(location.pathname) = "BuilderPage"
    /\ draft.o.phone = Str(<<"x">>)
    /\ draft2.o.name = Str(<<"y">>)
    /\ draft2.o.phone # draft.o.phone
    /\ StoredDraftText = JSONstringify(draft2)

-----------------------------------------------------------------------------
(* The build track in several sessions: what is stated about it *)

\* the commit form as StepPage holds it
Form == [notes |-> notes, status |-> status, screenshotName |-> screenshotName]

\* the three fields of the form in a record of the store
StoredForm(store, n) == FormOf(parseJson(getItem(store, getArtifactKey(n))))

\* C26: when the step StepPage shows changes, the form holds the three fields
\* of the artifact the page has for the new step, blank where it has none,
\* and a commit stores the form as it is then: what was entered on another
\* step is not in it.
C26_FormFollowsStep ==
    [][/\ (CurrentStep' # 0 /\ CurrentStep' # CurrentStep) =>
              Form' = FormOf(artifacts'[STEPS[CurrentStep'].number])
       /\ (CurrentStep # 0 /\ handleUploadArtifact) =>
              /\ CurrentStep' = CurrentStep
              /\ StoredForm(storage', STEPS[CurrentStep].number) = Form ]_vars

\* a commit was made on step 2 with the form the change of step left there:
\* the fields of the artifact an earlier visit had committed for it
C26_Witness ==
    /\ CurrentStep = 2
    /\ now = 1
    /\ Get(artifacts[2], "uploadedAt") = Str(toISOString(1))
    /\ StoredForm(storage, 2) = FormOf(OldArtifact)
    /\ StoredForm(storage, 1) = FormOf(OldArtifact)

\* C27: after a request of any URL of the build track, on any store, a page
\* with a redirect to make makes it and the page reached has none to make:
\* at most one redirect follows a request, the first step is never left by
\* a redirect, and no chain of redirects goes on.
C27_RedirectsSettle ==
    /\ [](redirects <= 1)
    /\ [][(RedirectStep \/ RedirectProof) => location.pathname # STEPS[1].route]_vars
    /\ (RedirectPending ~> ~RedirectPending)

\* a request was redirected and the page reached stays: from the proof page,
\* from a step beyond the first incomplete one, or from a slug of no step
C27_Witness ==
    /\ redirects = 1
    /\ ~RedirectPending
    /\ CurrentStep = 3
    /\ location.state = [from |-> PROOF_ROUTE]

\* the pathname is the route of a step, letter for letter
IsStepRoute(pathname) == \E i \in 1..Len(STEPS) : STEPS[i].route = pathname

\* C30: a URL /rb/<slug> whose slug is not exactly the slug of a step shows
\* no step under that URL: whatever the artifacts are, the request ends at
\* the route of the first step.
C30_InexactSlugGoesToFirst ==
    [][\A url \in Urls : \A stored \in {getInitialArtifacts(storage)} :
           (PageOf(url) = "StepPage" /\ ~IsStepRoute(url) /\ OpenUrl(url, stored)) =>
               location'.pathname = STEPS[1].route ]_vars

\* C25: from a store without artifacts, whatever two tabs open, follow and
\* commit, each on the artifact map it holds, the steps with a committed
\* artifact in the store are the steps 1..m for some m: no step has one while
\* an earlier step lacks one.
C25_CommitsArePrefix ==
    \A n \in StepNumbers :
        HasCommit(storage, n) => \A k \in 1..(n - 1) : HasCommit(storage, k)

\* the first tab committed step 1 and holds no more; the second tab has since
\* committed step 1 again and step 2, so the map of the first tab is stale
C25_Witness ==
    /\ Committed(artifacts[1])
    /\ ~Committed(artifacts[2])
    /\ HasCommit(storage, 2)
    /\ artifacts[1] # parseJson(getItem(storage, getArtifactKey(1)))
    /\ CurrentStep = 1

\* C29: a skill suggestion that completes and an edit of the draft made while
\* it was pending or right after its timer fired are both in the draft: the
\* scalar the user types is there and so are the suggested skills.
C29_SuggestionAndEditKept ==
    [][\A field \in {"name", "phone"} :
           (suggesting = "queued" /\ setFieldBeforeRender(field, <<"x">>)) =>
               draft' = Obj([withSuggestions(draft).o EXCEPT ![field] = Str(<<"x">>)]) ]_vars

====
